---------------------------- MODULE Spec2Model ----------------------------
(***************************************************************************)
(* Model of src/analyze_full.py: the registration analysis of GDG-Link.    *)
(*                                                                         *)
(*   determine_qualification  the ordered rule procedure (a pure function  *)
(*                            of one row of the data frame)                *)
(*   check_profile            the profile fetch with its retry loop        *)
(*   main                     grouping by phone number, the per-record     *)
(*                            loop (first pass, fetch, second pass, delay) *)
(*                                                                         *)
(* Encoding.  A cell that pandas may hold as None/NaN is an option value:  *)
(* None is the empty tuple and Some(v) the one-element tuple <<v>>.  A     *)
(* formatted reason string is the record of its template and of the        *)
(* numbers formatted into it.  An e-mail address is the sequence of its    *)
(* pieces: single characters, and the literal chunks "gdgocbcet@gmail"     *)
(* and "com" the domain pattern is made of.                                *)
(***************************************************************************)
EXTENDS Integers, Sequences, FiniteSets, TLC

VARIABLES
    df,            \* the data frame: a sequence of rows (main)
    index,         \* the loop variable of "for index, row in df.iterrows()"
    pc,            \* where main (or the pure-function harness) stands
    status,        \* main's local "status"
    reason,        \* main's local "reason"
    attempt,       \* check_profile's loop variable
    profile_data,  \* the value check_profile returned to main
    trace,         \* the events of the current check_profile call
    hist,          \* per record: calls made for it and what they returned
    data_csv,      \* the rows of data.csv, in file order
    report,        \* the numbers of the final summary (main, lines 252-304)
    users,         \* the rows of the table "users" (database.py)
    badges_rows,   \* the rows of the table "badges" (database.py)
    handlers,      \* the bot's handlers under way: arguments, position, locals
    api_response   \* what the last API call returned (api_database.py)

vars == <<df, index, pc, status, reason, attempt, profile_data, trace, hist,
          data_csv, report, users, badges_rows, handlers, api_response>>

---------------------------------------------------------------------------
(* Option values *)

None == <<>>

Some(v) == <<v>>

\* pd.isna(x) / pd.notna(x)
isna(x) == x = None

notna(x) == x # None

\* Python truthiness of a number-or-None ("if x and ...", "x or 0")
Truthy(x) == x # None /\ x[1] # 0

OrZero(x) == IF Truthy(x) THEN x[1] ELSE 0

---------------------------------------------------------------------------
(* Bounds of the model and constants of the program *)

MaxRecords == 2      \* records in data.csv
MaxBadges == 3       \* profile-badge elements on a profile page
MaxPoints == 1       \* points shown in the league block
MaxPosition == 3     \* duplicate_position of a row handed to the pure harness
MaxGroupRecords == 4 \* records in data.csv when only the grouping is looked at

ProgramYear == 2025
max_retries == 3
RequestTimeout == 10
BackoffDelay == 2
CourtesyDelay == 1

AcceptTerms == "Yes, I accept the terms"

StatusCodes ==
    { "INCOMPLETE_REGISTRATION", "TERMS_DECLINED", "NO_PROFILE_URL",
      "DUPLICATE_ENTRY", "HARD_QUALIFIED", "QUALIFIED_TIER2",
      "FLAGGED_DIFF_ACCOUNT", "DISQUALIFIED", "CAUTION_PRE2025",
      "REVIEW_NEEDED", "REVIEW_PRE2025", "UNKNOWN" }

---------------------------------------------------------------------------
(* E-mail addresses and the domain test of main (lines 188-189):           *)
(* Series.str.contains('.gdgocbcet@gmail.com', na=False) is a regular      *)
(* expression search, so each '.' of the pattern matches any one character *)

IsChar(piece) == piece \notin {"gdgocbcet@gmail", "com"}

ContainsGdgPattern(s) ==
    \E i \in 1..Len(s) :
        /\ i + 3 <= Len(s)
        /\ IsChar(s[i])
        /\ s[i + 1] = "gdgocbcet@gmail"
        /\ IsChar(s[i + 2])
        /\ s[i + 3] = "com"

\* str.contains(..., na=False) of one cell
str_contains_gdg(cell) == IF isna(cell) THEN FALSE ELSE ContainsGdgPattern(cell[1])

GdgEmail == <<"a", ".", "gdgocbcet@gmail", ".", "com">>
PlainEmail == <<"a", "@", "x", ".", "com">>
OtherPlainEmail == <<"b", "@", "x", ".", "com">>


---------------------------------------------------------------------------
(* determine_qualification (lines 97-165) *)

Verdict(st, text, args) == [status |-> st, reason |-> [text |-> text, args |-> args]]

\* MissingRequired without its first test
MissingRequired_NoName(row) ==
    \/ isna(row.Email_Address)
    \/ isna(row.Skills_Boost_Email)
    \/ isna(row.Phone_Number)

\* lines 102-103
MissingRequired(row) ==
    \/ isna(row.Name)
    \/ isna(row.Email_Address)
    \/ isna(row.Skills_Boost_Email)
    \/ isna(row.Phone_Number)

\* line 107: 'Terms' in row and row['Terms'] != "Yes, I accept the terms"
TermsDeclined(row) == row.has_Terms /\ row.Terms # Some(AcceptTerms)

\* line 111: the URL with its blanks stripped is empty when it is made of
\* blanks only
strip(s) == IF \A i \in 1..Len(s) : s[i] = " " THEN <<>> ELSE s

ProfileUrlMissing(row) ==
    isna(row.Profile_URL) \/ strip(row.Profile_URL[1]) = <<>>

\* the duplicate test left out
DuplicateEntry_Never(row) == FALSE

\* DuplicateEntry with the comparison off by one
DuplicateEntry_OffByOne(row) ==
    /\ row.is_duplicate
    /\ notna(row.duplicate_position)
    /\ row.duplicate_position[1] > 2

\* line 125: is_duplicate and duplicate_position > 1 (NaN > 1 is False)
DuplicateEntry(row) ==
    /\ row.is_duplicate
    /\ notna(row.duplicate_position)
    /\ row.duplicate_position[1] > 1

\* (badge_count == 0 or pd.isna(badge_count)), the same for points, and
\* (pd.isna(league) or league == "")
ZeroOrNa_ZeroOnly(x) == x = Some(0)

ZeroOrNa(x) == x = Some(0) \/ isna(x)

NaOrEmpty_NaOnly(x) == isna(x)

NaOrEmpty_EmptyOnly(x) == x = Some("")

NaOrEmpty(x) == isna(x) \/ x = Some("")

\* the badge test left out
HasBadges_Never(badge_count) == FALSE

\* HasBadges with the comparison off by one
HasBadges_MoreThanOne(badge_count) == Truthy(badge_count) /\ badge_count[1] > 1

\* line 149: badge_count and badge_count > 0
HasBadges(badge_count) == Truthy(badge_count) /\ badge_count[1] > 0

\* the function running out without its last "else": it returns None
DefaultVerdict_Missing == Verdict("", "", <<>>)

\* lines 164-165
DefaultVerdict == Verdict("UNKNOWN", "Could not determine profile details", <<>>)

\* lines 128-165: the rules that read the profile columns
ProfileRules(row) ==
    LET email_matches == row.email_matches
        email_has_gdg == row.email_has_gdg_domain
        skillsboost_has_gdg == row.skillsboost_has_gdg_domain
        creation_year == row.profile_creation_year
        badge_count == row.profile_badge_count
        league == row.profile_league
        points == row.profile_points
    IN  IF /\ email_has_gdg
           /\ creation_year = Some(ProgramYear)
           /\ ZeroOrNa(badge_count)
           /\ ZeroOrNa(points)
           /\ NaOrEmpty(league)
        THEN Verdict("HARD_QUALIFIED", "GDG domain + 2025 creation + empty profile", <<>>)
        ELSE IF /\ email_matches
                /\ creation_year = Some(ProgramYear)
                /\ ZeroOrNa(badge_count)
                /\ NaOrEmpty(league)
                /\ ZeroOrNa(points)
        THEN Verdict("QUALIFIED_TIER2", "Matching emails + 2025 creation + empty profile", <<>>)
        ELSE IF ~email_matches /\ skillsboost_has_gdg
        THEN Verdict("FLAGGED_DIFF_ACCOUNT", "Different email but Skills Boost has GDG domain", <<>>)
        ELSE IF HasBadges(badge_count)
        THEN Verdict("DISQUALIFIED", "Has {} badges", <<badge_count[1]>>)
        ELSE IF /\ Truthy(creation_year)
                /\ creation_year[1] < ProgramYear
                /\ ZeroOrNa(badge_count)
                /\ NaOrEmpty(league)
                /\ ZeroOrNa(points)
        THEN Verdict("CAUTION_PRE2025", "Created in {} but empty profile", <<creation_year[1]>>)
        ELSE IF creation_year = Some(ProgramYear)
        THEN Verdict("REVIEW_NEEDED", "2025 account with {} badges, {} points",
                     <<OrZero(badge_count), OrZero(points)>>)
        ELSE IF Truthy(creation_year) /\ creation_year[1] < ProgramYear
        THEN Verdict("REVIEW_PRE2025", "Pre-2025 account ({}) needs review", <<creation_year[1]>>)
        ELSE DefaultVerdict

\* determine_qualification with the duplicate test moved to the top
determine_qualification_DuplicateFirst(row) ==
    IF DuplicateEntry(row)
    THEN Verdict("DUPLICATE_ENTRY", "Duplicate entry #{} for same phone number",
                 <<row.duplicate_position[1]>>)
    ELSE IF MissingRequired(row)
    THEN Verdict("INCOMPLETE_REGISTRATION", "Missing required fields (Name, Email, or Phone)", <<>>)
    ELSE IF TermsDeclined(row)
    THEN Verdict("TERMS_DECLINED", "Terms and conditions not accepted", <<>>)
    ELSE IF ProfileUrlMissing(row)
    THEN Verdict("NO_PROFILE_URL", "Skills Boost profile URL missing", <<>>)
    ELSE ProfileRules(row)

determine_qualification(row) ==
    IF MissingRequired(row)
    THEN Verdict("INCOMPLETE_REGISTRATION", "Missing required fields (Name, Email, or Phone)", <<>>)
    ELSE IF TermsDeclined(row)
    THEN Verdict("TERMS_DECLINED", "Terms and conditions not accepted", <<>>)
    ELSE IF ProfileUrlMissing(row)
    THEN Verdict("NO_PROFILE_URL", "Skills Boost profile URL missing", <<>>)
    ELSE IF DuplicateEntry(row)
    THEN Verdict("DUPLICATE_ENTRY", "Duplicate entry #{} for same phone number",
                 <<row.duplicate_position[1]>>)
    ELSE ProfileRules(row)

---------------------------------------------------------------------------
(* main, lines 173-198: grouping by phone number and the added columns.    *)
(* pandas: duplicated() counts two missing phone numbers as equal, while   *)
(* groupby() drops the rows with a missing key, whose ngroup() and         *)
(* cumcount() are NaN; sort_values() puts NaN last and keeps ties in       *)
(* their order; ngroup() numbers the groups in the order of the keys.      *)

Indices(seq) == 1..Len(seq)

SamePhone(raw, i, j) == raw[i].Phone_Number = raw[j].Phone_Number

\* line 174: df.duplicated(subset=['Phone Number'], keep=False)
duplicated(raw, i) == \E j \in Indices(raw) : j # i /\ SamePhone(raw, i, j)

\* line 175: df.groupby('Phone Number').ngroup()
ngroup(raw, i) ==
    IF isna(raw[i].Phone_Number) THEN None
    ELSE Some(Cardinality({ raw[j].Phone_Number[1] : j \in
                  { k \in Indices(raw) : /\ notna(raw[k].Phone_Number)
                                         /\ raw[k].Phone_Number[1] < raw[i].Phone_Number[1] } }))

\* cumcount_plus_1 without the "+ 1"
cumcount_ZeroBased(raw, i) ==
    IF isna(raw[i].Phone_Number) THEN None
    ELSE Some(Cardinality({ j \in Indices(raw) : j < i /\ SamePhone(raw, i, j) }))

\* line 176: df.groupby('Phone Number').cumcount() + 1
cumcount_plus_1(raw, i) ==
    IF isna(raw[i].Phone_Number) THEN None
    ELSE Some(Cardinality({ j \in Indices(raw) : j < i /\ SamePhone(raw, i, j) }) + 1)

MarkDuplicates(raw) ==
    [ i \in Indices(raw) |->
        [ Name |-> raw[i].Name,
          Email_Address |-> raw[i].Email_Address,
          Skills_Boost_Email |-> raw[i].Skills_Boost_Email,
          Phone_Number |-> raw[i].Phone_Number,
          has_Terms |-> raw[i].has_Terms,
          Terms |-> raw[i].Terms,
          Profile_URL |-> raw[i].Profile_URL,
          file_line |-> i,
          is_duplicate |-> duplicated(raw, i),
          duplicate_group |-> ngroup(raw, i),
          duplicate_position |-> cumcount_plus_1(raw, i) ] ]

\* the order of sort_values on one column: NaN after every number
KeyLess(a, b) == notna(a) /\ (isna(b) \/ a[1] < b[1])

\* line 179: row i stands before row j after
\* sort_values(['duplicate_group', 'duplicate_position'])
SortsBefore(rows, i, j) ==
    \/ KeyLess(rows[i].duplicate_group, rows[j].duplicate_group)
    \/ /\ rows[i].duplicate_group = rows[j].duplicate_group
       /\ \/ KeyLess(rows[i].duplicate_position, rows[j].duplicate_position)
          \/ /\ rows[i].duplicate_position = rows[j].duplicate_position
             /\ i < j

\* line 179 with the sorted frame thrown away
sort_values_NotAssigned(rows) == rows

sort_values(rows) ==
    [ k \in Indices(rows) |->
        rows[CHOOSE i \in Indices(rows) :
                Cardinality({ j \in Indices(rows) : SortsBefore(rows, j, i) }) = k - 1] ]

\* lines 187-198 for one row
AddColumns(r) ==
    [ Name |-> r.Name,
      Email_Address |-> r.Email_Address,
      Skills_Boost_Email |-> r.Skills_Boost_Email,
      Phone_Number |-> r.Phone_Number,
      has_Terms |-> r.has_Terms,
      Terms |-> r.Terms,
      Profile_URL |-> r.Profile_URL,
      file_line |-> r.file_line,
      is_duplicate |-> r.is_duplicate,
      duplicate_group |-> r.duplicate_group,
      duplicate_position |-> r.duplicate_position,
      \* NaN == NaN is False
      email_matches |-> notna(r.Email_Address) /\ r.Email_Address = r.Skills_Boost_Email,
      email_has_gdg_domain |-> str_contains_gdg(r.Email_Address),
      skillsboost_has_gdg_domain |-> str_contains_gdg(r.Skills_Boost_Email),
      profile_creation_year |-> None,
      profile_badge_count |-> None,
      profile_league |-> None,
      profile_points |-> None,
      profile_status |-> None,
      qualification_status |-> None,
      qualification_reason |-> None ]

\* lines 170-198: the data frame the loop starts from
LoadFrame(raw) ==
    LET sorted == sort_values(MarkDuplicates(raw))
    IN  [ k \in Indices(raw) |-> AddColumns(sorted[k]) ]

---------------------------------------------------------------------------
(* check_profile (lines 29-94).  A profile page is what the parser reads   *)
(* of it: the "Member since" paragraph, the number of profile-badge        *)
(* elements and the league block.                                          *)

\* the text of <p class="ql-body-large l-mbl">: whether it reads
\* "Member since " and the four digits that follow, if any
MemberText(marker, year) == [marker |-> marker, year |-> year]

\* <div class="profile-league">: the text of its <h2>, if it has one, and
\* its <strong>, if it has one: the first run of digits of that text, if any
LeagueBlock(name, strong) == [name |-> name, strong |-> strong]

Page(member, badges, league) == [member |-> member, badges |-> badges, league |-> league]

Evidence(date, year, badges, league, points, st) ==
    [ creation_date |-> date, creation_year |-> year, badge_count |-> badges,
      league |-> league, points |-> points, status |-> st ]

\* the badge count left None when the page shows no badge
len_or_None(badge_elements) ==
    IF badge_elements > 0 THEN Some(badge_elements) ELSE None

\* line 54: len(badge_elements) if badge_elements else 0
len_or_0(badge_elements) ==
    IF badge_elements > 0 THEN Some(badge_elements) ELSE Some(0)

\* lines 39-80: the parse of a fetched page
ParseProfile(page) ==
    LET acc_creation_element == page.member
        creation_text == IF notna(acc_creation_element)
                         THEN acc_creation_element ELSE None
        \* re.search(r'Member since (\d{4})', creation_text)
        creation_year == IF /\ notna(acc_creation_element)
                            /\ acc_creation_element[1].marker
                         THEN acc_creation_element[1].year ELSE None
        badge_count == len_or_0(page.badges)
        league_element == page.league
        league_name == IF notna(league_element) THEN league_element[1].name ELSE None
        \* re.search(r'(\d+)', points_text) on the <strong> text
        points == IF /\ notna(league_element)
                     /\ notna(league_element[1].strong)
                  THEN league_element[1].strong[1] ELSE None
    IN  Evidence(creation_text, creation_year, badge_count, league_name,
                 points, "success")

\* ErrorEvidence with the program year in place of None
ErrorEvidence_ProgramYear(e) ==
    Evidence(None, Some(ProgramYear), None, None, None, "error: " \o e)

\* ErrorEvidence with a badge count of 0 in place of None
ErrorEvidence_ZeroBadges(e) == Evidence(None, None, Some(0), None, None, "error: " \o e)

\* lines 87-94: what the last failed attempt returns
ErrorEvidence(e) == Evidence(None, None, None, None, None, "error: " \o e)

\* what requests.get / BeautifulSoup may raise
Exceptions == {"Read timed out", "Connection refused"}

Event(ev, arg) == [ev |-> ev, arg |-> arg]

\* line 33: for attempt in range(max_retries)
InRange(a) == a < max_retries

\* MoreAttemptsLeft with the comparison off by one
MoreAttemptsLeft_OffByOne(a) == a < max_retries

\* line 84: if attempt < max_retries - 1
MoreAttemptsLeft(a) == a < max_retries - 1

---------------------------------------------------------------------------
(* The inputs: the records of data.csv and the pages the profile site      *)
(* serves                                                                  *)

RawRecord(name, email, sb, phone, has_terms, terms, url) ==
    [ Name |-> name, Email_Address |-> email, Skills_Boost_Email |-> sb,
      Phone_Number |-> phone, has_Terms |-> has_terms, Terms |-> terms,
      Profile_URL |-> url ]

Url == <<"h", "t", "t", "p">>
BlankUrl == <<" ", " ">>

Phones == {111, 222}

\* a record with every field filled in, and the same record with one defect
Complete(email, sb, phone) ==
    RawRecord(Some("A"), Some(email), Some(sb), Some(phone), TRUE, Some(AcceptTerms), Some(Url))

RunRecords ==
    { Complete(GdgEmail, GdgEmail, p) : p \in Phones }
    \cup { Complete(PlainEmail, PlainEmail, 111),
           Complete(PlainEmail, GdgEmail, 111),
           Complete(GdgEmail, PlainEmail, 111),
           [Complete(GdgEmail, GdgEmail, 111) EXCEPT !.Name = None],
           [Complete(GdgEmail, GdgEmail, 111) EXCEPT !.Terms = Some("No")],
           [Complete(GdgEmail, GdgEmail, 111) EXCEPT !.Profile_URL = None],
           [Complete(GdgEmail, GdgEmail, 111) EXCEPT !.Phone_Number = None] }

Datasets == UNION { [1..n -> RunRecords] : n \in 0..MaxRecords }

RunPages ==
    { Page(Some(MemberText(TRUE, Some(ProgramYear))), 0, None),
      Page(Some(MemberText(TRUE, Some(ProgramYear))), 1, None),
      Page(Some(MemberText(TRUE, Some(ProgramYear))), 0, Some(LeagueBlock(Some("Gold"), Some(Some(1))))),
      Page(Some(MemberText(TRUE, Some(ProgramYear - 1))), 0, None),
      Page(Some(MemberText(TRUE, Some(ProgramYear - 1))), 0, Some(LeagueBlock(Some("Gold"), Some(None)))),
      Page(None, 0, None) }

\* what requests.get returns when it raises nothing (line 38): a status code
\* and a body.  No line looks at the status code, so a 404 whose body is an
\* HTML page without the profile elements is parsed like any other page.
Response(status_code, page) == [status_code |-> status_code, page |-> page]

Responses ==
    { Response(200, page) : page \in RunPages } \cup { Response(404, Page(None, 0, None)) }

---------------------------------------------------------------------------
(* main, lines 200-238: the loop over the records.  index counts from 1.   *)
(* hist[i] records, for the row at index i, how often                      *)
(* determine_qualification and check_profile were called for it, the       *)
(* verdict of the first call and the evidence check_profile returned.      *)

NoReason == [text |-> "", args |-> <<>>]

NoHistory == [evals |-> 0, fetches |-> 0, pass1 |-> None, fetched |-> None, slept |-> 0]

\* SkipStatuses without its last member
SkipStatuses_Short == {"INCOMPLETE_REGISTRATION", "TERMS_DECLINED"}

\* SkipStatuses taken to be the invalid statuses of line 271
SkipStatuses_WithDuplicates ==
    {"INCOMPLETE_REGISTRATION", "TERMS_DECLINED", "NO_PROFILE_URL", "DUPLICATE_ENTRY"}

\* line 208
SkipStatuses == {"INCOMPLETE_REGISTRATION", "TERMS_DECLINED", "NO_PROFILE_URL"}

\* UrlAvailable with pd.isna in place of pd.notna
UrlAvailable_Inverted(row) == isna(row.Profile_URL)

\* line 221
UrlAvailable(row) == notna(row.Profile_URL) /\ strip(row.Profile_URL[1]) # <<>>

\* lines 209-210, 216-217, 234-235
SetVerdict(frame, i, st, rs) ==
    [frame EXCEPT ![i].qualification_status = Some(st),
                  ![i].qualification_reason = Some(rs)]

\* lines 225-229
SetProfile(frame, i, data) ==
    [frame EXCEPT ![i].profile_creation_year = data.creation_year,
                  ![i].profile_badge_count = data.badge_count,
                  ![i].profile_league = data.league,
                  ![i].profile_points = data.points,
                  ![i].profile_status = Some(data.status)]

Init ==
    /\ \E raw \in Datasets :
          /\ data_csv = raw
          /\ df = LoadFrame(raw)
          /\ hist = [i \in Indices(raw) |-> NoHistory]
    /\ report = None
    /\ users = <<>>
    /\ badges_rows = {}
    /\ handlers = <<>>
    /\ api_response = <<>>
    /\ index = 1
    /\ pc = "loop"
    /\ status = ""
    /\ reason = NoReason
    /\ attempt = 0
    /\ profile_data = None
    /\ trace = <<>>

\* lines 201-222: the first call of determine_qualification for a record,
\* up to "continue" or to the call of check_profile
FirstPass ==
    /\ pc = "loop"
    /\ index <= Len(df)
    /\ LET v == determine_qualification(df[index])
           skip == v.status \in SkipStatuses
           fetch == ~skip /\ UrlAvailable(df[index])
       IN  /\ status' = v.status
           /\ reason' = v.reason
           /\ hist' = [hist EXCEPT ![index].evals = @ + 1,
                                   ![index].pass1 = Some(v.status),
                                   ![index].fetches = IF fetch THEN @ + 1 ELSE @]
           /\ df' = IF skip
                    THEN [SetVerdict(df, index, v.status, v.reason)
                             EXCEPT ![index].profile_status = Some("skipped")]
                    ELSE IF v.status = "DUPLICATE_ENTRY"
                    THEN SetVerdict(df, index, v.status, v.reason)
                    ELSE df
           /\ index' = IF skip THEN index + 1 ELSE index
           /\ pc' = IF skip THEN "loop" ELSE IF fetch THEN "fetch" ELSE "delay"
           /\ attempt' = IF fetch THEN 0 ELSE attempt
           /\ trace' = IF fetch THEN <<>> ELSE trace
           /\ UNCHANGED <<profile_data, data_csv, report, users, badges_rows, handlers, api_response>>

\* lines 33-80: an attempt that raises nothing returns the parsed page
AttemptSucceeds ==
    /\ pc = "fetch"
    /\ \E response \in Responses :
          /\ profile_data' = Some(ParseProfile(response.page))
          /\ trace' = trace \o <<Event("get", RequestTimeout),
                                  Event("ok", response.status_code)>>
          /\ pc' = "returned"
    /\ UNCHANGED <<df, index, status, reason, attempt, hist, data_csv, report, users, badges_rows, handlers, api_response>>

\* lines 33-38, 82-94: an attempt that raises e sleeps and goes round the
\* loop again, or, as the last one, returns the error evidence.  A "for"
\* loop that runs out returns None.
AttemptFails ==
    /\ pc = "fetch"
    /\ \E e \in Exceptions :
          IF MoreAttemptsLeft(attempt)
          THEN /\ trace' = trace \o <<Event("get", RequestTimeout), Event("fail", 0),
                                      Event("sleep", BackoffDelay)>>
               /\ attempt' = attempt + 1
               /\ IF InRange(attempt + 1)
                  THEN pc' = "fetch" /\ UNCHANGED profile_data
                  ELSE pc' = "returned" /\ profile_data' = None
          ELSE /\ trace' = trace \o <<Event("get", RequestTimeout), Event("fail", 0)>>
               /\ profile_data' = Some(ErrorEvidence(e))
               /\ pc' = "returned"
               /\ UNCHANGED attempt
    /\ UNCHANGED <<df, index, status, reason, hist, data_csv, report, users, badges_rows, handlers, api_response>>

\* SecondPass calling determine_qualification on the row as it was before
\* the evidence was stored
SecondPass_StaleRow ==
    /\ pc = "returned"
    /\ IF isna(profile_data)
       THEN /\ pc' = "crashed"
            /\ UNCHANGED <<df, status, reason, hist, trace>>
       ELSE LET stored == SetProfile(df, index, profile_data[1])
                v == determine_qualification(df[index])
            IN  /\ pc' = "delay"
                /\ trace' = <<>>
                /\ IF status # "DUPLICATE_ENTRY"
                   THEN /\ status' = v.status
                        /\ reason' = v.reason
                        /\ df' = SetVerdict(stored, index, v.status, v.reason)
                        /\ hist' = [hist EXCEPT ![index].evals = @ + 1,
                                                ![index].fetched = profile_data]
                   ELSE /\ df' = stored
                        /\ hist' = [hist EXCEPT ![index].fetched = profile_data]
                        /\ UNCHANGED <<status, reason>>
    /\ UNCHANGED <<index, attempt, profile_data, data_csv, report, users, badges_rows, handlers, api_response>>

\* lines 222-235: the evidence is stored and, unless the record is a
\* duplicate entry, determine_qualification is called again.  Subscripting
\* None (a check_profile that returned nothing) raises TypeError.
SecondPass ==
    /\ pc = "returned"
    /\ IF isna(profile_data)
       THEN /\ pc' = "crashed"
            /\ UNCHANGED <<df, status, reason, hist, trace>>
       ELSE LET stored == SetProfile(df, index, profile_data[1])
                v == determine_qualification(stored[index])
            IN  /\ pc' = "delay"
                /\ trace' = <<>>
                /\ IF status # "DUPLICATE_ENTRY"
                   THEN /\ status' = v.status
                        /\ reason' = v.reason
                        /\ df' = SetVerdict(stored, index, v.status, v.reason)
                        /\ hist' = [hist EXCEPT ![index].evals = @ + 1,
                                                ![index].fetched = profile_data]
                   ELSE /\ df' = stored
                        /\ hist' = [hist EXCEPT ![index].fetched = profile_data]
                        /\ UNCHANGED <<status, reason>>
    /\ UNCHANGED <<index, attempt, profile_data, data_csv, report, users, badges_rows, handlers, api_response>>

\* Delay with line 238 left out
Delay_NoSleep ==
    /\ pc = "delay"
    /\ index' = index + 1
    /\ pc' = "loop"
    /\ UNCHANGED <<df, status, reason, attempt, profile_data, trace, hist, data_csv, report, users, badges_rows, handlers, api_response>>

\* line 238: time.sleep(1), and on to the next record
Delay ==
    /\ pc = "delay"
    /\ hist' = [hist EXCEPT ![index].slept = @ + CourtesyDelay]
    /\ index' = index + 1
    /\ pc' = "loop"
    /\ UNCHANGED <<df, status, reason, attempt, profile_data, trace, data_csv, report, users, badges_rows, handlers, api_response>>

\* line 201: the loop ends after the last record
EndLoop ==
    /\ pc = "loop"
    /\ index > Len(df)
    /\ pc' = "summary"
    /\ UNCHANGED <<df, index, status, reason, attempt, profile_data, trace, hist, data_csv, report, users, badges_rows, handlers, api_response>>

---------------------------------------------------------------------------
(* The summary of main (lines 252-304).  A percentage is kept as the       *)
(* number the report prints for it: count / denominator * 100 formatted    *)
(* with one decimal, held in tenths (33.3% is 333).                        *)

\* f"{(count / denominator) * 100:.1f}" in tenths; the format rounds to the
\* nearest tenth, a tie to the even one
Percentage(count, denominator) ==
    LET scaled == count * 1000
        floor == scaled \div denominator
        rest == scaled % denominator
    IN  IF 2 * rest > denominator THEN floor + 1
        ELSE IF 2 * rest = denominator THEN floor + (floor % 2)
        ELSE floor

\* line 271
invalid_statuses ==
    { "INCOMPLETE_REGISTRATION", "TERMS_DECLINED", "NO_PROFILE_URL", "DUPLICATE_ENTRY" }

\* line 287
qualified_statuses == { "HARD_QUALIFIED", "QUALIFIED_TIER2" }

\* action_required_statuses with DISQUALIFIED counted in
action_required_statuses_WithDisqualified ==
    { "FLAGGED_DIFF_ACCOUNT", "REVIEW_NEEDED", "CAUTION_PRE2025", "REVIEW_PRE2025",
      "DISQUALIFIED" }

\* line 297
action_required_statuses ==
    { "FLAGGED_DIFF_ACCOUNT", "REVIEW_NEEDED", "CAUTION_PRE2025", "REVIEW_PRE2025" }

\* Series.isin(values): a missing cell is in no list
isin(cell, values) == notna(cell) /\ cell[1] \in values

\* line 272: df[~df['qualification_status'].isin(invalid_statuses)]
valid_entries(frame) ==
    { i \in Indices(frame) : ~isin(frame[i].qualification_status, invalid_statuses) }

\* Series.value_counts() over the rows of a subset: the statuses that occur,
\* each with the number of rows holding it; missing cells are not counted
value_counts(frame, rows) ==
    [ st \in { frame[i].qualification_status[1] :
                  i \in { j \in rows : notna(frame[j].qualification_status) } } |->
        Cardinality({ i \in rows : frame[i].qualification_status = Some(st) }) ]

\* the denominator the valid-entries breakdown divides by (line 283)
BreakdownDenominator_Total(total_entries, valid_count) == total_entries

BreakdownDenominator(total_entries, valid_count) == valid_count

\* line 277: (valid_count/total_entries)*100, None for ZeroDivisionError
ValidShare(valid_count, total_entries) ==
    IF total_entries = 0 THEN None ELSE Some(Percentage(valid_count, total_entries))

\* lines 253-302: the numbers of the summary
Summary(frame) ==
    LET total_entries == Len(frame)
        valid == valid_entries(frame)
        valid_count == Cardinality(valid)
        status_counts == value_counts(frame, Indices(frame))
        valid_status_counts == value_counts(frame, valid)
        qualified_count ==
            Cardinality({ i \in Indices(frame) :
                            isin(frame[i].qualification_status, qualified_statuses) })
        action_required_count ==
            Cardinality({ i \in Indices(frame) :
                            isin(frame[i].qualification_status, action_required_statuses) })
    IN  [ total_entries |-> total_entries,
          unique_phones |->
              Cardinality({ frame[i].Phone_Number[1] :
                              i \in { j \in Indices(frame) : notna(frame[j].Phone_Number) } }),
          duplicate_entries |->
              Cardinality({ i \in Indices(frame) :
                              /\ frame[i].is_duplicate
                              /\ notna(frame[i].duplicate_position)
                              /\ frame[i].duplicate_position[1] > 1 }),
          status_counts |-> status_counts,
          \* lines 266-268: no status occurs when there is no row
          status_percentage |->
              [ st \in DOMAIN status_counts |-> Percentage(status_counts[st], total_entries) ],
          valid_count |-> valid_count,
          valid_percentage |-> ValidShare(valid_count, total_entries),
          \* lines 279-284
          valid_status_counts |->
              IF valid_count > 0 THEN valid_status_counts ELSE << >>,
          valid_status_percentage |->
              IF valid_count > 0
              THEN [ st \in DOMAIN valid_status_counts |->
                       Percentage(valid_status_counts[st],
                                  BreakdownDenominator(total_entries, valid_count)) ]
              ELSE << >>,
          qualified_count |-> qualified_count,
          \* line 291
          qualified_percentage |->
              IF valid_count > 0 THEN Percentage(qualified_count, valid_count) ELSE 0,
          action_required_count |-> action_required_count,
          \* line 301
          action_percentage |->
              IF valid_count > 0 THEN Percentage(action_required_count, valid_count) ELSE 0 ]

\* lines 247-304: the summary is printed; the division of line 277 raises
\* ZeroDivisionError when the frame has no row, and the run ends there
Report ==
    /\ pc = "summary"
    /\ LET summary == Summary(df)
       IN  IF isna(summary.valid_percentage)
           THEN /\ pc' = "ZeroDivisionError"
                /\ report' = None
           ELSE /\ pc' = "reported"
                /\ report' = Some(summary)
    /\ UNCHANGED <<df, index, status, reason, attempt, profile_data, trace, hist, data_csv, users, badges_rows, handlers,
                 api_response>>

Next ==
    \/ FirstPass \/ AttemptSucceeds \/ AttemptFails \/ SecondPass \/ Delay \/ EndLoop
    \/ Report

Spec == Init /\ [][Next]_vars

---------------------------------------------------------------------------
(* determine_qualification alone: every well-typed row is handed to it     *)
(* once.  The row is built as main builds it (the e-mail columns are       *)
(* computed from the e-mail cells); the duplicate columns and the profile  *)
(* columns range over the values their types allow.                        *)

HarnessRow(raw, dup, pos, year, badges, league, points) ==
    [ AddColumns(
        [ Name |-> raw.Name,
          Email_Address |-> raw.Email_Address,
          Skills_Boost_Email |-> raw.Skills_Boost_Email,
          Phone_Number |-> raw.Phone_Number,
          has_Terms |-> raw.has_Terms,
          Terms |-> raw.Terms,
          Profile_URL |-> raw.Profile_URL,
          file_line |-> 1,
          is_duplicate |-> dup,
          duplicate_group |-> IF isna(raw.Phone_Number) THEN None ELSE Some(0),
          duplicate_position |-> IF isna(raw.Phone_Number) THEN None ELSE Some(pos) ])
      EXCEPT !.profile_creation_year = year,
             !.profile_badge_count = badges,
             !.profile_league = league,
             !.profile_points = points ]

HarnessEmails == {None, Some(GdgEmail), Some(PlainEmail), Some(OtherPlainEmail)}

HarnessRecords ==
    { RawRecord(name, email, sb, phone, terms[1], terms[2], url) :
        name \in {None, Some("A")},
        email \in HarnessEmails,
        sb \in HarnessEmails,
        phone \in {None, Some(111)},
        terms \in { <<FALSE, None>>, <<TRUE, None>>,
                    <<TRUE, Some(AcceptTerms)>>, <<TRUE, Some("No")>> },
        url \in {None, Some(BlankUrl), Some(Url)} }

\* is_duplicate and duplicate_position as lines 174-176 set them together
HarnessDuplicates == {<<FALSE, 1>>} \cup { <<TRUE, k>> : k \in 1..MaxPosition }

HarnessYears ==
    {None, Some(0), Some(ProgramYear - 1), Some(ProgramYear), Some(ProgramYear + 1)}

HarnessBadges == {None} \cup { Some(n) : n \in 0..MaxBadges }

HarnessLeagues == {None, Some(""), Some("Gold")}

HarnessPoints == {None} \cup { Some(n) : n \in 0..MaxPoints }

InitClassify ==
    /\ \E raw \in HarnessRecords, dup \in HarnessDuplicates, year \in HarnessYears,
          badges \in HarnessBadges, league \in HarnessLeagues, points \in HarnessPoints :
          df = <<HarnessRow(raw, dup[1], dup[2], year, badges, league, points)>>
    /\ hist = <<NoHistory>>
    /\ data_csv = <<>>
    /\ report = None
    /\ users = <<>>
    /\ badges_rows = {}
    /\ handlers = <<>>
    /\ api_response = <<>>
    /\ index = 1
    /\ pc = "pure"
    /\ status = ""
    /\ reason = NoReason
    /\ attempt = 0
    /\ profile_data = None
    /\ trace = <<>>

\* status, reason = determine_qualification(df.iloc[index])
ClassifyRow ==
    /\ pc = "pure"
    /\ LET v == determine_qualification(df[index])
       IN  /\ status' = v.status
           /\ reason' = v.reason
    /\ pc' = "classified"
    /\ UNCHANGED <<df, index, attempt, profile_data, trace, hist, data_csv, report, users, badges_rows, handlers, api_response>>

NextClassify == ClassifyRow

SpecClassify == InitClassify /\ [][NextClassify]_vars

---------------------------------------------------------------------------
(* The grouping of main (lines 173-184) on longer files.  Every record of  *)
(* these files lacks its name, so rule 1 ends each of them at the first    *)
(* call of determine_qualification and check_profile is never called: the  *)
(* steps main can take are FirstPass, EndLoop and Report.                  *)

GroupPhones == {None, Some(111), Some(222), Some(333)}

GroupRecords ==
    { [Complete(GdgEmail, GdgEmail, 111) EXCEPT !.Name = None, !.Phone_Number = p] :
        p \in GroupPhones }

GroupDatasets == UNION { [1..n -> GroupRecords] : n \in 0..MaxGroupRecords }

InitGroup ==
    /\ \E raw \in GroupDatasets :
          /\ data_csv = raw
          /\ df = LoadFrame(raw)
          /\ hist = [i \in Indices(raw) |-> NoHistory]
    /\ report = None
    /\ users = <<>>
    /\ badges_rows = {}
    /\ handlers = <<>>
    /\ api_response = <<>>
    /\ index = 1
    /\ pc = "loop"
    /\ status = ""
    /\ reason = NoReason
    /\ attempt = 0
    /\ profile_data = None
    /\ trace = <<>>

NextGroup == FirstPass \/ EndLoop \/ Report

SpecGroup == InitGroup /\ [][NextGroup]_vars

---------------------------------------------------------------------------
(* The rules as the specification lists them (section 4.2), each as a      *)
(* condition on a row, and the status each one gives                       *)

EmptyProfileAsListed(row) ==
    /\ (isna(row.profile_badge_count) \/ row.profile_badge_count = Some(0))
    /\ (isna(row.profile_points) \/ row.profile_points = Some(0))
    /\ (isna(row.profile_league) \/ row.profile_league = Some(""))

YearBeforeProgramYear(row) ==
    notna(row.profile_creation_year) /\ row.profile_creation_year[1] < ProgramYear

RuleHolds(k, row) ==
    CASE k = 1 -> \/ isna(row.Name) \/ isna(row.Email_Address)
                  \/ isna(row.Skills_Boost_Email) \/ isna(row.Phone_Number)
      [] k = 2 -> row.has_Terms /\ row.Terms # Some(AcceptTerms)
      [] k = 3 -> isna(row.Profile_URL) \/ \A i \in 1..Len(row.Profile_URL[1]) : row.Profile_URL[1][i] = " "
      [] k = 4 -> notna(row.duplicate_position) /\ row.duplicate_position[1] > 1
      [] k = 5 -> /\ row.email_has_gdg_domain
                  /\ row.profile_creation_year = Some(ProgramYear)
                  /\ EmptyProfileAsListed(row)
      [] k = 6 -> /\ row.email_matches
                  /\ row.profile_creation_year = Some(ProgramYear)
                  /\ EmptyProfileAsListed(row)
      [] k = 7 -> ~row.email_matches /\ row.skillsboost_has_gdg_domain
      [] k = 8 -> notna(row.profile_badge_count) /\ row.profile_badge_count[1] > 0
      [] k = 9 -> YearBeforeProgramYear(row) /\ EmptyProfileAsListed(row)
      [] k = 10 -> row.profile_creation_year = Some(ProgramYear) /\ ~EmptyProfileAsListed(row)
      [] k = 11 -> YearBeforeProgramYear(row) /\ ~EmptyProfileAsListed(row)
      [] k = 12 -> isna(row.profile_creation_year)

RuleStatus ==
    << "INCOMPLETE_REGISTRATION", "TERMS_DECLINED", "NO_PROFILE_URL",
       "DUPLICATE_ENTRY", "HARD_QUALIFIED", "QUALIFIED_TIER2",
       "FLAGGED_DIFF_ACCOUNT", "DISQUALIFIED", "CAUTION_PRE2025",
       "REVIEW_NEEDED", "REVIEW_PRE2025", "UNKNOWN" >>

RulesHolding(row) == { k \in 1..12 : RuleHolds(k, row) }

FirstRuleHolding(row) ==
    CHOOSE k \in RulesHolding(row) : \A j \in RulesHolding(row) : k <= j

\* evidence that satisfies rule 5 on a row whose declared e-mail is in the
\* reserved domain
QualifyingEvidence(row) ==
    /\ row.email_has_gdg_domain
    /\ row.profile_creation_year = Some(ProgramYear)
    /\ row.profile_badge_count = Some(0)
    /\ isna(row.profile_points)
    /\ isna(row.profile_league)

---------------------------------------------------------------------------
(* Claims about determine_qualification, checked under SpecClassify *)

\* C1: determine_qualification is total: for every well-typed row it
\* returns one status, which is one of the twelve codes, together with a
\* reason (it is a function of the row alone, so equal rows get equal
\* verdicts).
C1_TotalOverEnumeration ==
    pc = "classified" =>
        /\ status \in StatusCodes
        /\ reason.text # ""
        /\ Cardinality({ c \in StatusCodes : c = status }) = 1

\* C1 witness: a row no listed rule before the last applies to was given
\* the catch-all status.
C1_Witness ==
    /\ pc = "classified"
    /\ status = "UNKNOWN"
    /\ df[1].profile_creation_year = Some(ProgramYear + 1)

\* C2: whenever the conditions of two or more of the rules 1..12 hold for
\* a row, determine_qualification returns the status of the
\* lowest-numbered one.
C2_FirstMatchWins ==
    pc = "classified" /\ Cardinality(RulesHolding(df[1])) >= 2 =>
        status = RuleStatus[FirstRuleHolding(df[1])]

\* C2 witness: rules 5 and 6 (and no earlier rule) hold and the verdict is
\* that of rule 5.
C2_Witness ==
    /\ pc = "classified"
    /\ {5, 6} \subseteq RulesHolding(df[1])
    /\ FirstRuleHolding(df[1]) = 5
    /\ status = "HARD_QUALIFIED"

\* C3: a row whose name is missing (or whose declared e-mail, program
\* e-mail or phone number is missing) yields INCOMPLETE_REGISTRATION
\* whatever its other cells hold.
C3_MissingFieldIsIncomplete ==
    /\ pc = "classified"
    /\ \/ isna(df[1].Name)
       \/ isna(df[1].Email_Address)
       \/ isna(df[1].Skills_Boost_Email)
       \/ isna(df[1].Phone_Number)
    => status = "INCOMPLETE_REGISTRATION"

\* C3 witness: only the name is missing, consent is given, the URL is
\* there and the evidence would satisfy HARD_QUALIFIED.
C3_Witness ==
    /\ pc = "classified"
    /\ isna(df[1].Name)
    /\ notna(df[1].Phone_Number)
    /\ ~RuleHolds(2, df[1]) /\ ~RuleHolds(3, df[1])
    /\ QualifyingEvidence(df[1])
    /\ status = "INCOMPLETE_REGISTRATION"

\* C4 as stated: a row with duplicate_position = 2 always yields
\* DUPLICATE_ENTRY.
C4_Position2AlwaysDuplicate ==
    pc = "classified" /\ df[1].duplicate_position = Some(2) =>
        status = "DUPLICATE_ENTRY"

\* C4 amended: a row with duplicate_position = 2 to which none of the
\* rules 1-3 applies yields DUPLICATE_ENTRY, with the position in its
\* reason, whatever its evidence.
C4_Position2DuplicateAfterRules123 ==
    /\ pc = "classified"
    /\ df[1].duplicate_position = Some(2)
    /\ \A k \in 1..3 : ~RuleHolds(k, df[1])
    => /\ status = "DUPLICATE_ENTRY"
       /\ reason.args = <<2>>

\* C4 witness: a complete row at position 2 whose evidence satisfies
\* HARD_QUALIFIED was given DUPLICATE_ENTRY.
C4_Witness ==
    /\ pc = "classified"
    /\ df[1].duplicate_position = Some(2)
    /\ \A k \in 1..3 : ~RuleHolds(k, df[1])
    /\ QualifyingEvidence(df[1])
    /\ status = "DUPLICATE_ENTRY"

---------------------------------------------------------------------------
(* Claims about the run of main, checked under Spec *)

ShortCircuitStatuses == {"INCOMPLETE_REGISTRATION", "TERMS_DECLINED", "NO_PROFILE_URL"}

\* the loop is done with record i
Processed(i) == i < index \/ (i = index /\ pc = "delay")

\* the first call of determine_qualification for record i gave st
FirstPassGave(i, st) == hist[i].pass1 = Some(st)

\* the profile columns of a row are those of the evidence ev, status too
HoldsEvidence(row, ev) ==
    /\ row.profile_creation_year = ev.creation_year
    /\ row.profile_badge_count = ev.badge_count
    /\ row.profile_league = ev.league
    /\ row.profile_points = ev.points
    /\ row.profile_status = Some(ev.status)

NoEvidenceYet(row) ==
    /\ isna(row.profile_creation_year)
    /\ isna(row.profile_badge_count)
    /\ isna(row.profile_league)
    /\ isna(row.profile_points)

\* C5: check_profile is never called for a record whose first-pass status
\* is INCOMPLETE_REGISTRATION, TERMS_DECLINED or NO_PROFILE_URL: that
\* verdict is stored at once, determine_qualification is not called for the
\* record again and its profile_status is 'skipped'.  For every other
\* record check_profile is called at most once.
C5_FetchAtMostOnceNeverForShortCircuit ==
    \A i \in Indices(df) :
        /\ hist[i].fetches <= 1
        /\ \A st \in ShortCircuitStatuses :
              FirstPassGave(i, st) =>
                  /\ hist[i].fetches = 0
                  /\ hist[i].evals = 1
                  /\ df[i].qualification_status = Some(st)
                  /\ df[i].profile_status = Some("skipped")
                  /\ NoEvidenceYet(df[i])

\* C5 witness: at the end of a run one record was short-circuited without
\* a fetch and another was fetched once.
C5_Witness ==
    /\ pc = "summary"
    /\ \E i, j \in Indices(df) :
          /\ FirstPassGave(i, "NO_PROFILE_URL")
          /\ hist[i].fetches = 0
          /\ df[i].profile_status = Some("skipped")
          /\ hist[j].fetches = 1

\* C6: a record classified DUPLICATE_ENTRY on the first pass keeps that
\* status and its reason from then on; its evidence is fetched once and
\* stored in its profile columns, and whatever the evidence is,
\* determine_qualification is not called for the record again.
C6_DuplicateKeepsVerdict ==
    \A i \in Indices(df) :
        FirstPassGave(i, "DUPLICATE_ENTRY") =>
            /\ df[i].qualification_status = Some("DUPLICATE_ENTRY")
            /\ df[i].qualification_reason =
                  Some([text |-> "Duplicate entry #{} for same phone number",
                        args |-> <<df[i].duplicate_position[1]>>])
            /\ hist[i].evals = 1
            /\ Processed(i) =>
                  /\ hist[i].fetches = 1
                  /\ notna(hist[i].fetched)
                  /\ HoldsEvidence(df[i], hist[i].fetched[1])

\* C6 witness: at the end of a run a duplicate entry holds, stored,
\* evidence of a successful fetch that satisfies HARD_QUALIFIED.
C6_Witness ==
    /\ pc = "summary"
    /\ \E i \in Indices(df) :
          /\ FirstPassGave(i, "DUPLICATE_ENTRY")
          /\ df[i].qualification_status = Some("DUPLICATE_ENTRY")
          /\ df[i].profile_status = Some("success")
          /\ QualifyingEvidence(df[i])

\* the row with the evidence ev in its profile columns
MergedRow(row, ev) ==
    [row EXCEPT !.profile_creation_year = ev.creation_year,
                !.profile_badge_count = ev.badge_count,
                !.profile_league = ev.league,
                !.profile_points = ev.points,
                !.profile_status = Some(ev.status)]

\* C7: every record is pending, then either short-circuited (rules 1-3,
\* terminal) or given a provisional verdict without evidence and then a
\* final one.  For a record not classified by rules 1-4 on the first pass
\* the stored verdict, once the loop is done with the record, is
\* determine_qualification of the row with the fetched evidence merged in,
\* and stays so.
C7_TwoPassStateMachine ==
    \A i \in Indices(df) :
        \* pending
        /\ (i > index \/ (i = index /\ pc = "loop")) =>
              /\ hist[i].evals = 0
              /\ isna(df[i].qualification_status)
        \* provisional: the first verdict is main's local, evidence not yet stored
        /\ (i = index /\ pc \in {"fetch", "returned"}) =>
              /\ hist[i].evals = 1
              /\ hist[i].pass1 = Some(status)
              /\ status \notin ShortCircuitStatuses
              /\ NoEvidenceYet(df[i])
              /\ status # "DUPLICATE_ENTRY" => isna(df[i].qualification_status)
        \* short-circuited or final
        /\ Processed(i) =>
              \/ \E st \in ShortCircuitStatuses \cup {"DUPLICATE_ENTRY"} :
                    FirstPassGave(i, st) /\ hist[i].evals = 1
              \/ /\ hist[i].evals = 2
                 /\ hist[i].fetches = 1
                 /\ notna(hist[i].fetched)
                 /\ HoldsEvidence(df[i], hist[i].fetched[1])
                 /\ LET v == determine_qualification(MergedRow(df[i], hist[i].fetched[1]))
                    IN  /\ df[i].qualification_status = Some(v.status)
                        /\ df[i].qualification_reason = Some(v.reason)

\* C7 witness: at the end of a run a record whose provisional verdict was
\* UNKNOWN holds the final verdict HARD_QUALIFIED.
C7_Witness ==
    /\ pc = "summary"
    /\ \E i \in Indices(df) :
          /\ FirstPassGave(i, "UNKNOWN")
          /\ hist[i].evals = 2
          /\ df[i].qualification_status = Some("HARD_QUALIFIED")

EventCount(kind) == Cardinality({ k \in 1..Len(trace) : trace[k].ev = kind })

ErrorStatuses == { "error: Read timed out", "error: Connection refused" }

\* C8: when all 3 attempts of a check_profile call have failed, the call
\* returns (it does not raise) an evidence value whose content fields are
\* all null and whose status is 'error: <message>', not 'success'.
C8_AllAttemptsFailGivesErrorEvidence ==
    EventCount("fail") = 3 =>
        /\ pc = "returned"
        /\ notna(profile_data)
        /\ isna(profile_data[1].creation_date)
        /\ isna(profile_data[1].creation_year)
        /\ isna(profile_data[1].badge_count)
        /\ isna(profile_data[1].league)
        /\ isna(profile_data[1].points)
        /\ profile_data[1].status # "success"
        /\ profile_data[1].status \in ErrorStatuses

\* C8 witness: a call has returned after three failed attempts.
C8_Witness ==
    /\ pc = "returned"
    /\ EventCount("fail") = 3
    /\ profile_data[1].status = "error: Read timed out"

\* C9: whatever fetches fail, the run is never aborted: the loop can always
\* take its next step until it has gone through every record, and when it
\* ends every record has a qualification_status of the enumeration.
C9_FetchFailureNeverAborts ==
    /\ pc # "crashed"
    /\ pc \in {"loop", "fetch", "returned", "delay"} => ENABLED Next
    /\ pc = "summary" =>
          /\ index = Len(df) + 1
          /\ \A i \in Indices(df) :
                /\ hist[i].evals >= 1
                /\ notna(df[i].qualification_status)
                /\ df[i].qualification_status[1] \in StatusCodes

\* C9 witness: the run has ended, every record was fetched and every fetch
\* failed.
C9_Witness ==
    /\ pc = "summary"
    /\ Len(df) >= 2
    /\ \A i \in Indices(df) :
          /\ hist[i].fetches = 1
          /\ df[i].profile_status[1] \in ErrorStatuses
          /\ df[i].qualification_status[1] \in StatusCodes

\* C10: a check_profile call makes at most max_retries = 3 attempts, each
\* with a timeout of 10; a success ends the call at once; a delay of 2 is
\* taken only after a failed attempt that another attempt follows, never
\* after the last one; the call always goes on to return an evidence value.
C10_BoundedRetriesWithBackoff ==
    /\ EventCount("get") <= 3
    /\ \A k \in 1..Len(trace) :
          /\ trace[k].ev = "get" => trace[k].arg = 10
          /\ trace[k].ev = "ok" => k = Len(trace) /\ pc = "returned"
          /\ trace[k].ev = "sleep" =>
                /\ trace[k].arg = 2
                /\ k > 1 /\ trace[k - 1].ev = "fail"
                /\ IF k = Len(trace) THEN pc = "fetch" ELSE trace[k + 1].ev = "get"
    /\ pc = "fetch" => attempt < 3 /\ ENABLED (AttemptSucceeds \/ AttemptFails)
    /\ pc = "returned" =>
          /\ notna(profile_data)
          /\ trace[Len(trace)].ev \in {"ok", "fail"}
          /\ trace[Len(trace)].ev = "ok" <=> profile_data[1].status = "success"

\* C10 witness: a call has returned at its third attempt, the first to
\* succeed, after two delays.
C10_Witness ==
    /\ pc = "returned"
    /\ EventCount("get") = 3
    /\ EventCount("sleep") = 2
    /\ trace[Len(trace)].ev = "ok"

---------------------------------------------------------------------------
(* The grouping (main, lines 173-184)                                      *)

\* the rows of the frame whose cell holds the phone number p
RowsOfPhone(p) == { k \in Indices(df) : df[k].Phone_Number = Some(p) }

\* the phone numbers that occur in data.csv
PhonesOnFile ==
    { data_csv[i].Phone_Number[1] : i \in { j \in Indices(data_csv) : notna(data_csv[j].Phone_Number) } }

\* C11: the records sharing one phone number carry the duplicate_position
\* values 1..k, k the size of the set, in the order of their lines in
\* data.csv; exactly one of them has position 1 and it is the one that
\* stands first in the file.
C11_PositionsCountFileOrder ==
    \A p \in PhonesOnFile :
        LET group == RowsOfPhone(p)
            k == Cardinality({ i \in Indices(data_csv) : data_csv[i].Phone_Number = Some(p) })
        IN  /\ Cardinality(group) = k
            /\ \A a \in group : notna(df[a].duplicate_position)
            /\ { df[a].duplicate_position[1] : a \in group } = 1..k
            /\ \A a, b \in group :
                  df[a].file_line < df[b].file_line
                      <=> df[a].duplicate_position[1] < df[b].duplicate_position[1]
            /\ \E a \in group :
                  /\ df[a].duplicate_position = Some(1)
                  /\ \A b \in group :
                        /\ b # a => df[b].duplicate_position # Some(1)
                        /\ df[a].file_line <= df[b].file_line

\* C11 witness: three records share a phone number, a record of another
\* number stands between them in the file, and the run has gone through.
C11_Witness ==
    /\ pc = "reported"
    /\ \E p \in PhonesOnFile :
          /\ Cardinality(RowsOfPhone(p)) = 3
          /\ \E i \in Indices(data_csv) :
                /\ i > 1 /\ i < Len(data_csv)
                /\ data_csv[i].Phone_Number # Some(p)
                /\ data_csv[i - 1].Phone_Number = Some(p)
                /\ data_csv[i + 1].Phone_Number = Some(p)

\* the duplicate group of row k as the grouper defines it: the rows sharing
\* its phone number, and the row alone when its phone number is blank
DuplicateGroupOf(k) ==
    IF isna(df[k].Phone_Number) THEN {k}
    ELSE { j \in Indices(df) : df[j].Phone_Number = df[k].Phone_Number }

\* C12: a record has is_duplicate = true exactly when its duplicate group
\* has more than one member: the first-seen member of a larger group has
\* it too, and every member of a one-record group has is_duplicate = false.
C12_IsDuplicateIffGroupLargerThanOne ==
    \A k \in Indices(df) :
        df[k].is_duplicate <=> Cardinality(DuplicateGroupOf(k)) > 1

\* C13: a record with a blank phone number is a group of its own: it shares
\* its duplicate_group with no other record, it has neither is_duplicate =
\* true nor a duplicate_position above 1, whatever other blanks the file
\* holds, and with a blank name it is classified INCOMPLETE_REGISTRATION.
C13_BlankPhoneIsSingleton ==
    \A k \in Indices(df) :
        isna(df[k].Phone_Number) =>
            /\ \A j \in Indices(df) :
                  j # k /\ notna(df[j].duplicate_group)
                      => df[j].duplicate_group # df[k].duplicate_group
            /\ ~df[k].is_duplicate
            /\ ~(notna(df[k].duplicate_position) /\ df[k].duplicate_position[1] > 1)
            /\ isna(df[k].Name) /\ Processed(k)
                  => df[k].qualification_status = Some("INCOMPLETE_REGISTRATION")

\* row k of the frame holds the cells of line i of data.csv
SameRecord(k, i) ==
    /\ df[k].Name = data_csv[i].Name
    /\ df[k].Email_Address = data_csv[i].Email_Address
    /\ df[k].Skills_Boost_Email = data_csv[i].Skills_Boost_Email
    /\ df[k].Phone_Number = data_csv[i].Phone_Number
    /\ df[k].has_Terms = data_csv[i].has_Terms
    /\ df[k].Terms = data_csv[i].Terms
    /\ df[k].Profile_URL = data_csv[i].Profile_URL

\* C14: the frame holds exactly the records of data.csv, each once; its
\* rows stand in the order of (duplicate_group, duplicate_position); the
\* members of a group are adjacent and in the order of their lines in the
\* file; and the records are classified in the order of the frame.
C14_GroupingKeepsEveryRecordInOrder ==
    /\ Len(df) = Len(data_csv)
    /\ \A i \in Indices(data_csv) :
          Cardinality({ k \in Indices(df) : df[k].file_line = i }) = 1
    /\ \A k \in Indices(df) :
          df[k].file_line \in Indices(data_csv) /\ SameRecord(k, df[k].file_line)
    /\ \A k, l \in Indices(df) :
          k < l /\ notna(df[k].duplicate_group) /\ notna(df[l].duplicate_group) =>
              \/ df[k].duplicate_group[1] < df[l].duplicate_group[1]
              \/ /\ df[k].duplicate_group = df[l].duplicate_group
                 /\ df[k].duplicate_position[1] < df[l].duplicate_position[1]
    /\ \A k, l \in Indices(df) :
          k < l /\ l \in DuplicateGroupOf(k) =>
              /\ \A m \in k..l : m \in DuplicateGroupOf(k)
              /\ df[k].file_line < df[l].file_line
    /\ \A k, l \in Indices(df) :
          k < l /\ hist[l].evals >= 1 => Processed(k)

\* C14 witness: the members of a group of two are apart in the file and
\* stand after a record of a group that sorts later; the whole frame has been
\* classified.
C14_Witness ==
    /\ pc = "reported"
    /\ Len(df) = 4
    /\ \A k \in Indices(df) : hist[k].evals = 1
    /\ \E k \in Indices(df) :
          /\ k < Len(df)
          /\ df[k + 1].Phone_Number = df[k].Phone_Number
          /\ notna(df[k].Phone_Number)
          /\ df[k + 1].file_line > df[k].file_line + 1
          /\ df[k].file_line > 1
          /\ k = 1

---------------------------------------------------------------------------
(* The summary (main, lines 252-304)                                       *)

\* the rows whose status is none of the four invalid ones
ValidRows ==
    { i \in Indices(df) :
        /\ df[i].qualification_status # Some("INCOMPLETE_REGISTRATION")
        /\ df[i].qualification_status # Some("TERMS_DECLINED")
        /\ df[i].qualification_status # Some("NO_PROFILE_URL")
        /\ df[i].qualification_status # Some("DUPLICATE_ENTRY") }

RowsWithStatus(rows, st) == { i \in rows : df[i].qualification_status = Some(st) }

RECURSIVE SumOver(_, _)
SumOver(f, S) ==
    IF S = {} THEN 0
    ELSE LET x == CHOOSE y \in S : TRUE
         IN  f[x] + SumOver(f, S \ {x})

\* the printed number (in tenths of a percent) is count / denominator * 100
\* rounded to one decimal
PrintsShare(tenths, count, denominator) ==
    LET exact == count * 1000
        shown == tenths * denominator
    IN  /\ 2 * (shown - exact) <= denominator
        /\ 2 * (exact - shown) <= denominator

\* C15: with a valid entry at hand, the valid-entries breakdown lists every
\* status of a valid row with its count and count / valid_count * 100,
\* valid_count being the number of rows whose status is none of
\* INCOMPLETE_REGISTRATION, TERMS_DECLINED, NO_PROFILE_URL and
\* DUPLICATE_ENTRY; the counts add up to valid_count and the percentages to
\* 100 up to the rounding of each.
C15_ValidBreakdownOverValidCount ==
    pc = "reported" /\ ValidRows # {} =>
        LET r == report[1]
            listed == DOMAIN r.valid_status_counts
        IN  /\ r.valid_count = Cardinality(ValidRows)
            /\ listed = { df[i].qualification_status[1] : i \in ValidRows }
            /\ DOMAIN r.valid_status_percentage = listed
            /\ \A st \in listed :
                  /\ r.valid_status_counts[st] = Cardinality(RowsWithStatus(ValidRows, st))
                  /\ PrintsShare(r.valid_status_percentage[st],
                                 r.valid_status_counts[st], r.valid_count)
            /\ SumOver(r.valid_status_counts, listed) = r.valid_count
            /\ 2 * (SumOver(r.valid_status_percentage, listed) - 1000) <= Cardinality(listed)
            /\ 2 * (1000 - SumOver(r.valid_status_percentage, listed)) <= Cardinality(listed)

\* C15 witness: a report over one valid and one invalid record: the one
\* valid status is shown with 100.0%, not with the 50.0% of the whole file.
C15_Witness ==
    /\ pc = "reported"
    /\ Cardinality(ValidRows) = 1
    /\ Len(df) = 2
    /\ \E st \in DOMAIN report[1].valid_status_percentage :
          /\ report[1].valid_status_percentage[st] = 1000
          /\ report[1].status_percentage[st] = 500

\* C16: the summary never divides by zero, and a percentage whose
\* denominator is 0 is reported as 0: with no record at all the share of
\* valid entries is 0, and with no valid entry the shares of qualified and
\* of action-required entries are 0 and the breakdown lists nothing.
C16_ZeroDenominatorReportsZero ==
    /\ pc # "ZeroDivisionError"
    /\ pc = "reported" =>
          LET r == report[1]
          IN  /\ r.total_entries = 0 =>
                    /\ r.valid_percentage = Some(0)
                    /\ DOMAIN r.status_percentage = {}
              /\ r.valid_count = 0 =>
                    /\ r.qualified_percentage = 0
                    /\ r.action_percentage = 0
                    /\ DOMAIN r.valid_status_percentage = {}

---------------------------------------------------------------------------
(* The pace of the loop (main, lines 201-238)                              *)

\* record i is inside its check_profile call
InCall(i) == i = index /\ pc \in {"fetch", "returned"}

\* C17: the records are processed one after the other, and a delay of one
\* time unit lies between the end of the check_profile call of a record and
\* the start of the call of any later record: when the loop has gone past a
\* fetched record, its call has returned and the delay has been taken after
\* it, and no call has started for a record the loop has not come to.
C17_DelayBetweenFetches ==
    \A i \in Indices(df) :
        /\ hist[i].fetches >= 1 => i <= index
        /\ hist[i].evals >= 1 => i <= index
        /\ i < index /\ hist[i].fetches >= 1 =>
              /\ notna(hist[i].fetched)
              /\ hist[i].slept >= 1
        /\ InCall(i) => hist[i].slept = 0
        /\ hist[i].slept >= 1 => i < index

\* C17 witness: the call for the second record is under way and the first
\* record was fetched too; one unit of delay was taken in between.
C17_Witness ==
    /\ index = 2
    /\ InCall(2)
    /\ hist[1].fetches = 1
    /\ hist[1].slept = 1
    /\ notna(hist[1].fetched)

---------------------------------------------------------------------------
(* The profile rules of determine_qualification (lines 128-165), checked   *)
(* under SpecClassify                                                      *)

\* an address of the reserved domain: it ends in ".gdgocbcet@gmail.com"
InReservedDomain(cell) ==
    /\ notna(cell)
    /\ Len(cell[1]) >= 5
    /\ SubSeq(cell[1], Len(cell[1]) - 3, Len(cell[1])) = <<".", "gdgocbcet@gmail", ".", "com">>

\* all required fields present, consent accepted, profile URL present
CompleteRecord(row) ==
    /\ notna(row.Name) /\ notna(row.Email_Address)
    /\ notna(row.Skills_Boost_Email) /\ notna(row.Phone_Number)
    /\ row.has_Terms /\ row.Terms = Some(AcceptTerms)
    /\ row.Profile_URL = Some(Url)

LaterDuplicate(row) == notna(row.duplicate_position) /\ row.duplicate_position[1] > 1

\* C18: a complete record that is not a duplicate of position above 1, whose
\* declared e-mail is in the reserved domain and whose evidence has the
\* program year, a badge count of 0 or none, points of 0 or none and a
\* league that is absent or empty, is HARD_QUALIFIED, also when the declared
\* e-mail equals the program e-mail.
C18_ReservedDomainEmptyProfileIsHard ==
    pc = "classified" =>
        LET row == df[1]
        IN  /\ CompleteRecord(row)
            /\ ~LaterDuplicate(row)
            /\ InReservedDomain(row.Email_Address)
            /\ row.profile_creation_year = Some(ProgramYear)
            /\ row.profile_badge_count \in {None, Some(0)}
            /\ row.profile_points \in {None, Some(0)}
            /\ row.profile_league \in {None, Some("")}
            => status = "HARD_QUALIFIED"

\* C18 witness: the record of the specification's example (declared and
\* program e-mail equal and in the reserved domain; year 2025, 0 badges, no
\* points, no league) has been classified HARD_QUALIFIED.
C18_Witness ==
    /\ pc = "classified"
    /\ CompleteRecord(df[1])
    /\ ~LaterDuplicate(df[1])
    /\ InReservedDomain(df[1].Email_Address)
    /\ df[1].Skills_Boost_Email = df[1].Email_Address
    /\ df[1].profile_creation_year = Some(ProgramYear)
    /\ df[1].profile_badge_count = Some(0)
    /\ isna(df[1].profile_points)
    /\ isna(df[1].profile_league)
    /\ status = "HARD_QUALIFIED"

\* C19: a record to which none of rules 1-7 applies and whose badge count is
\* a positive number n is DISQUALIFIED whatever its creation year, points
\* and league, and the reason is written with n.
C19_PositiveBadgesDisqualify ==
    pc = "classified" =>
        LET row == df[1]
        IN  /\ \A k \in 1..7 : ~RuleHolds(k, row)
            /\ notna(row.profile_badge_count)
            /\ row.profile_badge_count[1] > 0
            => /\ status = "DISQUALIFIED"
               /\ reason = [text |-> "Has {} badges", args |-> <<row.profile_badge_count[1]>>]

\* C19 witness: the HARD_QUALIFIED example record with the program year and
\* 3 badges is DISQUALIFIED, "Has 3 badges".
C19_Witness ==
    /\ pc = "classified"
    /\ CompleteRecord(df[1])
    /\ ~LaterDuplicate(df[1])
    /\ InReservedDomain(df[1].Email_Address)
    /\ df[1].Skills_Boost_Email = df[1].Email_Address
    /\ df[1].profile_creation_year = Some(ProgramYear)
    /\ df[1].profile_badge_count = Some(3)
    /\ status = "DISQUALIFIED"
    /\ reason.args = <<3>>

\* the counts a REVIEW_NEEDED reason is written with: the badge count and
\* the points of the evidence, an absent one as 0
ReasonHoldsCounts(row) ==
    /\ reason.text = "2025 account with {} badges, {} points"
    /\ reason.args = << IF isna(row.profile_badge_count) THEN 0 ELSE row.profile_badge_count[1],
                        IF isna(row.profile_points) THEN 0 ELSE row.profile_points[1] >>

\* C20 as stated: REVIEW_NEEDED is returned only when the creation year is
\* the program year and the profile is not empty (it has badges, points or
\* a league); the reason then holds the badge and point counts.
C20_ReviewNeededOnlyForNonEmptyProfile ==
    pc = "classified" /\ status = "REVIEW_NEEDED" =>
        /\ df[1].profile_creation_year = Some(ProgramYear)
        /\ ~EmptyProfileAsListed(df[1])
        /\ ReasonHoldsCounts(df[1])

\* C20: REVIEW_NEEDED is returned only when the creation year is the
\* program year and either the profile is not empty or the declared e-mail
\* is neither in the reserved domain nor equal to the program e-mail; the
\* reason then holds the badge and point counts, an absent one as 0.
C20_ReviewNeededIsProgramYearDefault ==
    pc = "classified" /\ status = "REVIEW_NEEDED" =>
        /\ df[1].profile_creation_year = Some(ProgramYear)
        /\ \/ ~EmptyProfileAsListed(df[1])
           \/ /\ ~InReservedDomain(df[1].Email_Address)
              /\ df[1].Email_Address # df[1].Skills_Boost_Email
        /\ ReasonHoldsCounts(df[1])

\* C20 witness: a program-year profile with points and a league, of a record
\* whose e-mail is in the reserved domain, is REVIEW_NEEDED with "0 badges,
\* 1 points".
C20_Witness ==
    /\ pc = "classified"
    /\ status = "REVIEW_NEEDED"
    /\ InReservedDomain(df[1].Email_Address)
    /\ df[1].profile_creation_year = Some(ProgramYear)
    /\ df[1].profile_points = Some(1)
    /\ df[1].profile_league = Some("Gold")
    /\ reason.args = <<0, 1>>

\* C21 as stated: UNKNOWN is returned only when the evidence holds no
\* creation year; a row with a creation year is never UNKNOWN.
C21_UnknownOnlyWithoutCreationYear ==
    pc = "classified" /\ status = "UNKNOWN" => isna(df[1].profile_creation_year)

\* the same row with one evidence cell replaced
WithBadges(row, b) == [row EXCEPT !.profile_badge_count = b]
WithPoints(row, p) == [row EXCEPT !.profile_points = p]
WithLeague(row, l) == [row EXCEPT !.profile_league = l]

\* cell x with "absent" and the zero value z exchanged
Exchanged(x, z) == IF isna(x) THEN Some(z) ELSE IF x = Some(z) THEN None ELSE x

\* C22: replacing an absent badge count by 0, absent points by 0 or an
\* absent league by the empty string, or the reverse, changes neither the
\* status nor the reason determine_qualification returns, and the function
\* returns a status of the enumeration for a row with absent evidence.
C22_ZeroOrAbsentEquivalence ==
    pc = "classified" =>
        LET row == df[1]
            same(other) == /\ determine_qualification(other).status = status
                           /\ determine_qualification(other).reason = reason
        IN  /\ same(WithBadges(row, Exchanged(row.profile_badge_count, 0)))
            /\ same(WithPoints(row, Exchanged(row.profile_points, 0)))
            /\ same(WithLeague(row, Exchanged(row.profile_league, "")))
            /\ status \in StatusCodes

\* C22 witness: a program-year row with no badge count, no points and no
\* league that went past rules 1-7 and was classified with a reason that
\* is written with the counts.
C22_Witness ==
    /\ pc = "classified"
    /\ isna(df[1].profile_badge_count)
    /\ isna(df[1].profile_points)
    /\ isna(df[1].profile_league)
    /\ status = "REVIEW_NEEDED"
    /\ reason.args = <<0, 0>>

\* C27: when determine_qualification returns REVIEW_NEEDED or
\* REVIEW_PRE2025 the badge count of the evidence is zero or absent, and the
\* badge count written into a REVIEW_NEEDED reason is 0.
C27_ReviewMeansNoBadges ==
    pc = "classified" /\ status \in {"REVIEW_NEEDED", "REVIEW_PRE2025"} =>
        /\ \/ isna(df[1].profile_badge_count)
           \/ df[1].profile_badge_count = Some(0)
        /\ status = "REVIEW_NEEDED" => reason.args[1] = 0

\* C27 witness: a row with a badge count of 0, points and a league, created
\* before the program year, was classified REVIEW_PRE2025.
C27_Witness ==
    /\ pc = "classified"
    /\ status = "REVIEW_PRE2025"
    /\ df[1].profile_badge_count = Some(0)
    /\ df[1].profile_points = Some(1)
    /\ df[1].profile_creation_year = Some(ProgramYear - 1)

---------------------------------------------------------------------------
(* The run as a whole (main), checked under Spec                           *)

\* the rows classified DUPLICATE_ENTRY
DuplicateVerdicts == RowsWithStatus(Indices(df), "DUPLICATE_ENTRY")

\* C25: after a run every record of the valid subset has
\* duplicate_position 1: a record of a position above 1 ends with one of
\* the four invalid statuses, the valid count is at most the number of
\* distinct phone numbers, and the DUPLICATE_ENTRY verdicts are at most the
\* reported duplicate count.
C25_ValidRecordsAreFirstOfGroup ==
    pc = "reported" =>
        /\ \A i \in ValidRows : df[i].duplicate_position = Some(1)
        /\ \A i \in Indices(df) :
              LaterDuplicate(df[i]) =>
                  /\ notna(df[i].qualification_status)
                  /\ df[i].qualification_status[1] \in
                        { "INCOMPLETE_REGISTRATION", "TERMS_DECLINED",
                          "NO_PROFILE_URL", "DUPLICATE_ENTRY" }
        /\ report[1].valid_count <= report[1].unique_phones
        /\ Cardinality(DuplicateVerdicts) <= report[1].duplicate_entries

\* C25 witness: two records of one phone number were both fetched with an
\* empty program-year profile; the first is valid, the second a duplicate.
C25_Witness ==
    /\ pc = "reported"
    /\ Len(df) = 2
    /\ df[2].duplicate_position = Some(2)
    /\ df[2].profile_creation_year = Some(ProgramYear)
    /\ df[2].profile_badge_count = Some(0)
    /\ df[2].qualification_status = Some("DUPLICATE_ENTRY")
    /\ ValidRows = {1}
    /\ report[1].duplicate_entries = 1

FirstPassStatuses ==
    { "INCOMPLETE_REGISTRATION", "TERMS_DECLINED", "NO_PROFILE_URL",
      "DUPLICATE_ENTRY", "FLAGGED_DIFF_ACCOUNT", "UNKNOWN" }

SecondPassStatuses ==
    { "HARD_QUALIFIED", "QUALIFIED_TIER2", "DISQUALIFIED", "CAUTION_PRE2025",
      "REVIEW_NEEDED", "REVIEW_PRE2025" }

\* C26: the first call of determine_qualification for a record, made while
\* its evidence cells are all absent, returns one of INCOMPLETE_REGISTRATION,
\* TERMS_DECLINED, NO_PROFILE_URL, DUPLICATE_ENTRY, FLAGGED_DIFF_ACCOUNT and
\* UNKNOWN; a record holds one of the six other statuses only after its
\* second call, made after a fetch that returned status "success".
C26_ProfileStatusesNeedSuccessfulFetch ==
    \A i \in Indices(df) :
        /\ notna(hist[i].pass1) => hist[i].pass1[1] \in FirstPassStatuses
        /\ /\ notna(df[i].qualification_status)
           /\ df[i].qualification_status[1] \in SecondPassStatuses
           => /\ hist[i].evals = 2
              /\ hist[i].fetches = 1
              /\ notna(hist[i].fetched)
              /\ hist[i].fetched[1].status = "success"

\* C26 witness: a record was UNKNOWN on its first pass and HARD_QUALIFIED on
\* its second, and another one kept UNKNOWN after a fetch that failed.
C26_Witness ==
    /\ pc = "summary"
    /\ \E i, j \in Indices(df) :
          /\ hist[i].pass1 = Some("UNKNOWN")
          /\ df[i].qualification_status = Some("HARD_QUALIFIED")
          /\ hist[i].fetched[1].status = "success"
          /\ hist[j].pass1 = Some("UNKNOWN")
          /\ df[j].qualification_status = Some("UNKNOWN")
          /\ hist[j].fetched[1].status \in ErrorStatuses

\* the number of rows of the frame holding status st
CountOf(st) == Cardinality(RowsWithStatus(Indices(df), st))

\* C30: the counts of the report partition the records: the per-status
\* counts add up to the total, and qualified + action-required +
\* DISQUALIFIED + UNKNOWN is the valid count, so the qualified and the
\* action-required percentages together are at most 100.
C30_ReportCountsPartition ==
    pc = "reported" =>
        LET r == report[1]
        IN  /\ r.total_entries = Len(df)
            /\ SumOver(r.status_counts, DOMAIN r.status_counts) = r.total_entries
            /\ r.qualified_count = CountOf("HARD_QUALIFIED") + CountOf("QUALIFIED_TIER2")
            /\ r.action_required_count =
                  CountOf("FLAGGED_DIFF_ACCOUNT") + CountOf("REVIEW_NEEDED")
                  + CountOf("CAUTION_PRE2025") + CountOf("REVIEW_PRE2025")
            /\ r.qualified_count + r.action_required_count
                  + CountOf("DISQUALIFIED") + CountOf("UNKNOWN") = r.valid_count
            /\ r.qualified_percentage + r.action_percentage <= 1000

\* C30 witness: a report over a qualified and a disqualified record: the
\* valid count is 2, the qualified share 50.0% and the action-required
\* share 0.0%.
C30_Witness ==
    /\ pc = "reported"
    /\ report[1].valid_count = 2
    /\ report[1].qualified_count = 1
    /\ CountOf("DISQUALIFIED") = 1
    /\ report[1].qualified_percentage = 500
    /\ report[1].action_percentage = 0

\* C28: check_profile makes a further attempt only after an attempt that
\* raised; it returns status "success" exactly when an attempt went through
\* without raising, and then the badge count is a number >= 0, never None,
\* while creation year, league and points may be None; a response with an
\* HTTP error status and a readable body ends the call like any other
\* response: it is parsed, the status is "success", nothing is retried.
C28_RetryOnlyOnException ==
    /\ \A k \in 1..Len(trace) :
          /\ trace[k].ev = "get" /\ k > 1 =>
                /\ k > 2
                /\ trace[k - 1].ev = "sleep"
                /\ trace[k - 2].ev = "fail"
          /\ trace[k].ev = "ok" =>
                /\ k = Len(trace)
                /\ pc = "returned"
                /\ notna(profile_data)
                /\ profile_data[1].status = "success"
    /\ pc = "returned" =>
          /\ notna(profile_data)
          /\ profile_data[1].status = "success" <=> EventCount("ok") = 1
          /\ profile_data[1].status = "success" =>
                /\ notna(profile_data[1].badge_count)
                /\ profile_data[1].badge_count[1] >= 0
                /\ EventCount("get") = EventCount("fail") + 1
          /\ profile_data[1].status # "success" =>
                /\ EventCount("fail") = EventCount("get")
                /\ isna(profile_data[1].badge_count)

\* C28 witness: the first attempt got a 404 with a readable body: the call
\* returned at once with status "success", a badge count of 0 and no
\* creation year, league or points.
C28_Witness ==
    /\ pc = "returned"
    /\ Len(trace) = 2
    /\ trace[2] = Event("ok", 404)
    /\ profile_data[1].status = "success"
    /\ profile_data[1].badge_count = Some(0)
    /\ isna(profile_data[1].creation_year)
    /\ isna(profile_data[1].league)
    /\ isna(profile_data[1].points)

---------------------------------------------------------------------------
(* The tables "users" and "badges" (database.py, lines 96-125) and the     *)
(* queries of the API over them.  A name is held as its place in the       *)
(* alphabetical order of the names, a timestamp as a number.               *)

MaxUsers == 2        \* rows of the table "users"

LeaderboardLimit == 10

UserNames == {1, 2}

SubmitTimes == {1, 2}

AllBadges == {"The Basics of Google Cloud Compute", "Get Started with Cloud Storage"}

UserRow(id, name, url, discord_id, verified) ==
    [ id |-> id, name |-> name, skillsboost_url |-> url,
      discord_id |-> discord_id, verified |-> verified ]

BadgeRow(discord_id, badge_name, submitted_at) ==
    [ user_discord_id |-> discord_id, badge_name |-> badge_name,
      submitted_at |-> submitted_at ]

\* main of analyze_full.py is not running
MainIdle ==
    /\ df = <<>> /\ data_csv = <<>> /\ hist = <<>> /\ report = None
    /\ index = 1 /\ status = "" /\ reason = NoReason
    /\ attempt = 0 /\ profile_data = None /\ trace = <<>>

datavars ==
    <<df, index, status, reason, attempt, profile_data, trace, hist, data_csv, report>>

mainvars == <<datavars, pc>>

\* SELECT ... COUNT(b.id), MAX(b.submitted_at) FROM users u LEFT JOIN badges b
\* ON u.discord_id = b.user_discord_id WHERE u.verified = 1 GROUP BY ...
\* (database.py, lines 215-228 and 598-610), one row per verified user
BadgesOf(u) ==
    IF isna(u.discord_id) THEN {}
    ELSE { b \in badges_rows : b.user_discord_id = u.discord_id[1] }

JoinRow(u) ==
    LET mine == BadgesOf(u)
    IN  [ discord_id |-> u.discord_id,
          name |-> u.name,
          badge_count |-> Cardinality(mine),
          latest_badge_date |->
              IF mine = {} THEN None
              ELSE Some(CHOOSE t \in { b.submitted_at : b \in mine } :
                          \A b \in mine : b.submitted_at <= t),
          badges_earned |-> { b.badge_name : b \in mine } ]

VerifiedRows == { JoinRow(users[i]) : i \in { j \in Indices(users) : users[j].verified } }

\* the order of two rows the sort keys do not tell apart is not defined:
\* they come in the order of their discord_id or in the reverse one
TieBreak(a, b, tie) ==
    IF tie = "asc" THEN a.discord_id[1] < b.discord_id[1]
    ELSE a.discord_id[1] > b.discord_id[1]

\* ORDER BY badge_count DESC, latest_badge_date ASC, u.name ASC
\* (database.py, line 611); MySQL sorts NULL before every value
OrderByLeaderboard(a, b, tie) ==
    \/ a.badge_count > b.badge_count
    \/ /\ a.badge_count = b.badge_count
       /\ \/ isna(a.latest_badge_date) /\ notna(b.latest_badge_date)
          \/ /\ notna(a.latest_badge_date) /\ notna(b.latest_badge_date)
             /\ a.latest_badge_date[1] < b.latest_badge_date[1]
          \/ /\ a.latest_badge_date = b.latest_badge_date
             /\ \/ a.name < b.name
                \/ a.name = b.name /\ TieBreak(a, b, tie)

\* the rows of a set in the order of a strict total order
Sorted(rows, before) ==
    [ k \in 1..Cardinality(rows) |->
        CHOOSE r \in rows : Cardinality({ q \in rows : <<q, r>> \in before }) = k - 1 ]

\* LIMIT 10
Limit(seq, n) == SubSeq(seq, 1, IF Len(seq) < n THEN Len(seq) ELSE n)

\* database.py, lines 618-640: one entry of "top_performers" / "users"
Performer(rank, user) ==
    [ Rank |-> rank, Discord_ID |-> user.discord_id[1], Name |-> user.name,
      Badge_Count |-> user.badge_count,
      badges |-> [ badge \in AllBadges |->
                     IF badge \in user.badges_earned THEN "Done" ELSE "" ] ]

\* DatabaseOperations.get_leaderboard (database.py, lines 591-650)
LeaderboardOf(tie) ==
    LET before == { p \in VerifiedRows \X VerifiedRows :
                      OrderByLeaderboard(p[1], p[2], tie) }
        users_data == Limit(Sorted(VerifiedRows, before), LeaderboardLimit)
    IN  [ endpoint |-> "leaderboard",
          top_performers |-> [ k \in Indices(users_data) |-> Performer(k, users_data[k]) ],
          total_participants |-> Cardinality({ i \in Indices(users) : users[i].verified }) ]

\* GET /api/leaderboard (api_database.py, lines 644-720); a behaviour
\* follows one request, the tables being the same for the next one
get_leaderboard ==
    /\ pc = "api"
    /\ \E tie \in {"asc", "desc"} : api_response' = Some(LeaderboardOf(tie))
    /\ pc' = "answered"
    /\ UNCHANGED <<datavars, users, badges_rows, handlers>>

---------------------------------------------------------------------------
(* GET /api/progress: the text of filter_badge_count is a sequence of      *)
(* characters; the endpoint parses it and writes an SQL condition, which   *)
(* get_all_user_progress_filtered parses again.                            *)

DigitChars == <<"0", "1", "2", "3", "4", "5", "6", "7", "8", "9">>

IsDigit(c) == \E d \in 1..10 : DigitChars[d] = c

DigitValue(c) == (CHOOSE d \in 1..10 : DigitChars[d] = c) - 1

\* int(value) of a run of digits
RECURSIVE int(_)
int(digits) ==
    IF digits = <<>> THEN 0
    ELSE int(SubSeq(digits, 1, Len(digits) - 1)) * 10 + DigitValue(digits[Len(digits)])

\* the digits of f"{value}"
RECURSIVE str(_)
str(value) ==
    IF value < 10 THEN <<DigitChars[value + 1]>>
    ELSE str(value \div 10) \o <<DigitChars[(value % 10) + 1]>>

\* the alternatives of (>=|<=|>|<|=), in the order the pattern tries them
OperatorAlternatives == << <<">", "=">>, <<"<", "=">>, <<">">>, <<"<">>, <<"=">> >>

HasPrefix(text, prefix) ==
    Len(text) >= Len(prefix) /\ SubSeq(text, 1, Len(prefix)) = prefix

Drop(text, n) == SubSeq(text, n + 1, Len(text))

\* api_database.py, line 326:
\* re.match(r'^(>=|<=|>|<|=)(\d+)$', filter_badge_count.strip())
MatchFilter(text) ==
    LET rest(k) == Drop(text, Len(OperatorAlternatives[k]))
        fits == { k \in 1..Len(OperatorAlternatives) :
                    /\ HasPrefix(text, OperatorAlternatives[k])
                    /\ rest(k) # <<>>
                    /\ \A i \in 1..Len(rest(k)) : IsDigit(rest(k)[i]) }
    IN  IF fits = {} THEN None
        ELSE LET k == CHOOSE j \in fits : \A l \in fits : j <= l
             IN  Some([operator |-> OperatorAlternatives[k], value |-> int(rest(k))])

\* api_database.py, lines 321-340: the SQL condition written for the filter,
\* "" when the parameter is missing, empty or does not match
badge_count_condition(filter_badge_count) ==
    IF isna(filter_badge_count) \/ filter_badge_count[1] = <<>> THEN <<>>
    ELSE LET match == MatchFilter(strip(filter_badge_count[1]))
         IN  IF isna(match) THEN <<>>
             ELSE <<" ", "AND", " ", "badge_count", " ">> \o match[1].operator
                      \o <<" ">> \o str(match[1].value)

RECURSIVE SkipBlanks(_)
SkipBlanks(text) ==
    IF text # <<>> /\ text[1] = " " THEN SkipBlanks(Drop(text, 1)) ELSE text

RECURSIVE LeadingDigits(_)
LeadingDigits(text) ==
    IF text # <<>> /\ IsDigit(text[1]) THEN <<text[1]>> \o LeadingDigits(Drop(text, 1))
    ELSE <<>>

\* database.py, line 267:
\* re.search(r'badge_count\s*(>=|<=|>|<|=)\s*(\d+)', condition_str)
SearchCondition(condition_str) ==
    LET starts == { i \in 1..Len(condition_str) : condition_str[i] = "badge_count" }
        after(i) == SkipBlanks(Drop(condition_str, i))
        tail(i, k) == SkipBlanks(Drop(after(i), Len(OperatorAlternatives[k])))
        fits(i) == { k \in 1..Len(OperatorAlternatives) :
                       /\ HasPrefix(after(i), OperatorAlternatives[k])
                       /\ LeadingDigits(tail(i, k)) # <<>> }
        found == { i \in starts : fits(i) # {} }
    IN  IF found = {} THEN None
        ELSE LET i == CHOOSE j \in found : \A l \in found : j <= l
                 k == CHOOSE j \in fits(i) : \A l \in fits(i) : j <= l
             IN  Some([operator |-> OperatorAlternatives[k],
                       value |-> int(LeadingDigits(tail(i, k)))])

\* database.py, lines 274-284
condition_met(badge_count, operator, target_value) ==
    CASE operator = <<"=">> -> badge_count = target_value
      [] operator = <<">">> -> badge_count > target_value
      [] operator = <<"<">> -> badge_count < target_value
      [] operator = <<">", "=">> -> badge_count >= target_value
      [] operator = <<"<", "=">> -> badge_count <= target_value

\* database.py, lines 233-246: the key of the global ranking, a missing date
\* as float('inf')
global_sort_key(a, b, tie) ==
    \/ a.badge_count > b.badge_count
    \/ /\ a.badge_count = b.badge_count
       /\ \/ notna(a.latest_badge_date) /\ isna(b.latest_badge_date)
          \/ /\ notna(a.latest_badge_date) /\ notna(b.latest_badge_date)
             /\ a.latest_badge_date[1] < b.latest_badge_date[1]
          \/ /\ a.latest_badge_date = b.latest_badge_date
             /\ \/ a.name < b.name
                \/ a.name = b.name /\ TieBreak(a, b, tie)

\* database.py, lines 248-292 and 312-340: the ranks, the filter and the
\* entries of the answer
FilterByCondition(all_users, condition, match) ==
    LET ranked == [ k \in Indices(all_users) |-> [rank |-> k, user |-> all_users[k]] ]
        Keep(r) == /\ notna(match)
                   /\ condition_met(r.user.badge_count, match[1].operator, match[1].value)
        users_data == IF condition # <<>> THEN SelectSeq(ranked, Keep) ELSE ranked
    IN  [ endpoint |-> "progress",
          total_users |-> Len(all_users),
          users |-> [ k \in Indices(users_data) |->
                        Performer(users_data[k].rank, users_data[k].user) ] ]

\* DatabaseOperations.get_all_user_progress_filtered (database.py, lines
\* 209-340) with search = None, sort_by = "badge_count", sort_order = "desc"
ProgressOf(condition, tie) ==
    LET before == { p \in VerifiedRows \X VerifiedRows :
                      global_sort_key(p[1], p[2], tie) }
    IN  FilterByCondition(Sorted(VerifiedRows, before), condition,
                          SearchCondition(strip(condition)))

\* the texts of filter_badge_count the API is called with
FilterTexts ==
    { None, Some(<<"0">>), Some(<<"1">>), Some(<<"=", "1">>), Some(<<">", "0">>),
      Some(<<"<", "2">>), Some(<<">", "=", "1">>), Some(<<"<", "=", "1">>) }

\* GET /api/progress (api_database.py, lines 220-351)
get_all_progress ==
    /\ pc = "api"
    /\ \E filter_badge_count \in FilterTexts, tie \in {"asc", "desc"} :
          \E result \in { ProgressOf(badge_count_condition(filter_badge_count), tie) } :
              api_response' =
                  Some([ endpoint |-> result.endpoint,
                         total_users |-> result.total_users,
                         users |-> result.users,
                         query_info |-> [filter_badge_count |-> filter_badge_count],
                         filtered_users |-> Len(result.users) ])
    /\ pc' = "answered"
    /\ UNCHANGED <<datavars, users, badges_rows, handlers>>

\* the tables the API is asked about: every user is linked to a Discord
\* account of its own and may be verified; a user holds each badge at most
\* once (UNIQUE KEY unique_user_badge)
UserTables ==
    UNION { { [ i \in 1..n |-> UserRow(i, choice[i][1], i, Some(i), choice[i][2]) ] :
                choice \in [1..n -> UserNames \X BOOLEAN] } : n \in 0..MaxUsers }

BadgeTables(n) ==
    { { BadgeRow(key[1], key[2], held[key]) :
          key \in { q \in (1..n) \X AllBadges : held[q] # 0 } } :
        held \in [(1..n) \X AllBadges -> {0} \cup SubmitTimes] }

InitBoard ==
    /\ MainIdle
    /\ pc = "api"
    /\ users \in UserTables
    /\ badges_rows \in BadgeTables(Len(users))
    /\ handlers = <<>>
    /\ api_response = None

NextBoard == get_leaderboard \/ get_all_progress

SpecBoard == InitBoard /\ [][NextBoard]_vars

\* C23 as stated: the leaderboard holds at most the 10 best verified
\* participants with the ranks 1..n in order, a participant with more
\* badges before one with fewer and, among participants with the same
\* number of badges, in the alphabetical order of their names.
C23_LeaderboardByBadgesThenName ==
    notna(api_response) /\ api_response[1].endpoint = "leaderboard" =>
        LET top == api_response[1].top_performers
            verified == { i \in Indices(users) : users[i].verified }
        IN  /\ Len(top) <= 10
            /\ Len(top) = IF Cardinality(verified) < 10 THEN Cardinality(verified) ELSE 10
            /\ \A k \in Indices(top) :
                  /\ top[k].Rank = k
                  /\ \E i \in verified :
                        /\ users[i].discord_id = Some(top[k].Discord_ID)
                        /\ users[i].name = top[k].Name
                        /\ top[k].Badge_Count = Cardinality(BadgesOf(users[i]))
            /\ \A k, l \in Indices(top) : k # l => top[k].Discord_ID # top[l].Discord_ID
            /\ \A k, l \in Indices(top) :
                  k < l =>
                      \/ top[k].Badge_Count > top[l].Badge_Count
                      \/ /\ top[k].Badge_Count = top[l].Badge_Count
                         /\ top[k].Name <= top[l].Name

\* the comparison the documentation of filter_badge_count reads a text as:
\* an operator and a number, or a bare number for "exactly that many"
DocumentedComparison(text) ==
    IF IsDigit(text[1]) THEN [operator |-> <<"=">>, value |-> int(text)]
    ELSE LET k == CHOOSE j \in 1..Len(OperatorAlternatives) :
                    /\ HasPrefix(text, OperatorAlternatives[j])
                    /\ \A l \in 1..(j - 1) : ~HasPrefix(text, OperatorAlternatives[l])
         IN  [operator |-> OperatorAlternatives[k],
              value |-> int(Drop(text, Len(OperatorAlternatives[k])))]

\* the Discord ids of the verified users whose badge count satisfies the
\* comparison
UsersSatisfying(comparison) ==
    { users[i].discord_id[1] :
        i \in { j \in Indices(users) :
                  /\ users[j].verified
                  /\ condition_met(Cardinality(BadgesOf(users[j])),
                                   comparison.operator, comparison.value) } }

\* C24 as stated: GET /api/progress called with filter_badge_count, given
\* as an operator and a number or as a bare number, returns exactly the
\* verified users whose badge count satisfies the comparison, a bare number
\* meaning exactly that many badges.
C24_FilterByBadgeCount ==
    /\ notna(api_response)
    /\ api_response[1].endpoint = "progress"
    /\ notna(api_response[1].query_info.filter_badge_count)
    => LET returned == api_response[1].users
           text == api_response[1].query_info.filter_badge_count[1]
       IN  /\ { returned[k].Discord_ID : k \in Indices(returned) }
                  = UsersSatisfying(DocumentedComparison(text))
           /\ \A k, l \in Indices(returned) :
                 k # l => returned[k].Discord_ID # returned[l].Discord_ID

---------------------------------------------------------------------------
(* Registration: a profile-verification message (cogs/events.py) and the   *)
(* add_member command (cogs/admin.py) run the same sequence of calls of    *)
(* DatabaseOperations. Each call is one statement against the database     *)
(* server; the statements of different handlers are taken in any order.    *)
(* Discord ids and profile URLs are numbers; str(author.id) and the        *)
(* trimming of the link are one-to-one on them.                            *)

MaxHandlers == 2     \* messages and commands handled in one behaviour

DiscordIds == {1, 2}

\* the profile URLs written in messages and commands: the URLs of the
\* pre-registered rows and one that is not pre-registered
ProfileUrls == 1..(MaxUsers + 1)

\* register_discord_user without "AND discord_id IS NULL"
WhereClause_UrlOnly(row, skillsboost_url) == row.skillsboost_url = skillsboost_url

\* database.py, line 757: WHERE skillsboost_url = %s AND discord_id IS NULL
WhereClause(row, skillsboost_url) ==
    row.skillsboost_url = skillsboost_url /\ row.discord_id = None

Handler(command, discord_id, skillsboost_url) ==
    [ command |-> command, discord_id |-> discord_id,
      skillsboost_url |-> skillsboost_url, at |-> "check_skillsboost_url_exists",
      user_data |-> None, success |-> FALSE, reply |-> "" ]

\* cursor.fetchone() of SELECT * FROM users WHERE ..., given the places of
\* the rows found: a row or None
fetchone(found) ==
    IF found = {} THEN None
    ELSE Some(users[CHOOSE i \in found : \A j \in found : i <= j])

\* Events.on_message, lines 36-43: a profile link posted in the
\* verification channel starts handle_profile_verification
on_message ==
    /\ pc = "bot"
    /\ Len(handlers) < MaxHandlers
    /\ \E author \in DiscordIds, link \in ProfileUrls :
          handlers' = Append(handlers, Handler("handle_profile_verification", author, link))
    /\ UNCHANGED <<mainvars, users, badges_rows, api_response>>

\* Admin.add_member, lines 153-156: the command is taken up
add_member ==
    /\ pc = "bot"
    /\ Len(handlers) < MaxHandlers
    /\ \E member \in DiscordIds, skillsboost_url \in ProfileUrls :
          handlers' = Append(handlers, Handler("add_member", member, skillsboost_url))
    /\ UNCHANGED <<mainvars, users, badges_rows, api_response>>

\* events.py, lines 57-59, and admin.py, lines 159-161
check_skillsboost_url_exists ==
    /\ pc = "bot"
    /\ \E h \in Indices(handlers) :
          /\ handlers[h].at = "check_skillsboost_url_exists"
          /\ LET user_data ==
                     fetchone({ i \in Indices(users) :
                                  users[i].skillsboost_url = handlers[h].skillsboost_url })
             IN  handlers' =
                   [handlers EXCEPT ![h] =
                      IF isna(user_data)
                      THEN [@ EXCEPT !.at = "done", !.reply = "not pre-registered"]
                      ELSE [@ EXCEPT !.at = "get_user_by_discord_id",
                                     !.user_data = user_data]]
    /\ UNCHANGED <<mainvars, users, badges_rows, api_response>>

\* events.py, lines 61-65, and admin.py, lines 163-168: the second query
\* and the test of the row read by the first one
get_user_by_discord_id ==
    /\ pc = "bot"
    /\ \E h \in Indices(handlers) :
          /\ handlers[h].at = "get_user_by_discord_id"
          /\ LET existing_user ==
                     fetchone({ i \in Indices(users) :
                                  users[i].discord_id = Some(handlers[h].discord_id) })
             IN  handlers' =
                   [handlers EXCEPT ![h] =
                      IF notna(existing_user)
                      THEN [@ EXCEPT !.at = "done", !.reply = "already verified"]
                      ELSE IF notna(handlers[h].user_data[1].discord_id)
                      THEN [@ EXCEPT !.at = "done", !.reply = "already linked"]
                      ELSE [@ EXCEPT !.at = "register_discord_user"]]
    /\ UNCHANGED <<mainvars, users, badges_rows, api_response>>

\* DatabaseOperations.register_discord_user (database.py, lines 747-770)
\* and the rest of the handler; an UPDATE that would give two rows the same
\* discord_id breaks UNIQUE (line 101) and changes nothing
register_discord_user ==
    /\ pc = "bot"
    /\ \E h \in Indices(handlers) :
          /\ handlers[h].at = "register_discord_user"
          /\ LET discord_id == handlers[h].discord_id
                 matched == { i \in Indices(users) :
                                WhereClause(users[i], handlers[h].skillsboost_url) }
                 updated == [ i \in Indices(users) |->
                                IF i \in matched
                                THEN [users[i] EXCEPT !.discord_id = Some(discord_id),
                                                      !.verified = TRUE]
                                ELSE users[i] ]
                 IntegrityError ==
                     \E i, j \in Indices(updated) :
                         /\ i # j
                         /\ notna(updated[i].discord_id)
                         /\ updated[i].discord_id = updated[j].discord_id
             IN  IF matched = {}
                 THEN /\ users' = users
                      /\ handlers' = [handlers EXCEPT ![h] =
                            [@ EXCEPT !.at = "done",
                                      !.reply = "Profile not found or already linked"]]
                 ELSE IF IntegrityError
                 THEN /\ users' = users
                      /\ handlers' = [handlers EXCEPT ![h] =
                            [@ EXCEPT !.at = "done", !.reply = "Registration error"]]
                 ELSE /\ users' = updated
                      /\ handlers' = [handlers EXCEPT ![h] =
                            [@ EXCEPT !.at = "done", !.success = TRUE,
                                      !.reply = "Registration successful"]]
    /\ UNCHANGED <<mainvars, badges_rows, api_response>>

\* the pre-registered profiles, none linked yet (discord_id DEFAULT NULL,
\* verified DEFAULT FALSE)
InitLink ==
    /\ MainIdle
    /\ pc = "bot"
    /\ users = [ i \in 1..MaxUsers |-> UserRow(i, i, i, None, FALSE) ]
    /\ badges_rows = {}
    /\ handlers = <<>>
    /\ api_response = None

NextLink ==
    \/ on_message
    \/ add_member
    \/ check_skillsboost_url_exists
    \/ get_user_by_discord_id
    \/ register_discord_user

SpecLink == InitLink /\ [][NextLink]_vars

\* no two rows of users hold the same discord_id
UniqueDiscordIds ==
    \A i, j \in Indices(users) :
        i # j /\ notna(users[i].discord_id) => users[i].discord_id # users[j].discord_id

\* C29: whatever the order of the statements of the verification messages
\* and add_member commands, a row of users linked to a Discord id keeps that
\* id, the rows of the table stay the same apart from the linking of
\* unlinked rows, no two rows hold the same discord_id, and a registration
\* that fails leaves the table as it was.
C29_RegistrationLinksOnlyUnlinkedProfiles ==
    [][ /\ UniqueDiscordIds
        /\ UniqueDiscordIds'
        /\ Len(users') = Len(users)
        /\ \A i \in Indices(users) :
              /\ notna(users[i].discord_id) => users'[i] = users[i]
              /\ users'[i].skillsboost_url = users[i].skillsboost_url
        /\ \A h \in Indices(handlers) :
              /\ handlers[h].at = "register_discord_user"
              /\ handlers'[h].at = "done"
              /\ ~handlers'[h].success
              => users' = users ]_vars

\* two handlers asked for the same profile with different Discord ids and
\* both came to register_discord_user: the first linked the row, the second
\* failed on the row already linked
C29_Witness ==
    \E g, h \in Indices(handlers) :
        /\ handlers[g].at = "done" /\ handlers[g].success
        /\ handlers[h].at = "done"
        /\ handlers[h].reply = "Profile not found or already linked"
        /\ handlers[h].skillsboost_url = handlers[g].skillsboost_url
        /\ handlers[h].discord_id # handlers[g].discord_id
        /\ \E i \in Indices(users) :
              /\ users[i].skillsboost_url = handlers[g].skillsboost_url
              /\ users[i].discord_id = Some(handlers[g].discord_id)

============================================================================
